---- MODULE Spec2Model ----
(***************************************************************************)
(* Model of the learnings store: the front-matter codec and the plain      *)
(* file-system repository (FileSystemRepository), and the business layer   *)
(* on top of it (LearningsModule).                                         *)
(*                                                                         *)
(* A JavaScript string is a sequence of one-character strings, so that the *)
(* codec is modelled by what it does to the characters.                    *)
(***************************************************************************)
EXTENDS Integers, Sequences, FiniteSets, TLC

VARIABLES
    fs,         \* the base directory: file name -> file text
    today,      \* the day new Date() falls on, as a day number
    ret,        \* what the last operation returned (or threw)
    live,       \* history: names returned by add and not removed since
    removed,    \* history: names removed and not added again since
    cin,        \* the input drawn (codec and shares specifications)
    cout,       \* the codec's output (codec specification)
    lfs,        \* the base directory of the local scope: file name -> file text
    git,        \* the git repository around the base directory, and its remote
    pc          \* the operations in flight: what each awaits or runs next

vars == <<fs, today, ret, live, removed, cin, cout, lfs, git, pc>>

(***************************************************************************)
(* Bounds of the model.                                                    *)
(***************************************************************************)
\* the most entries the directory holds
MaxFiles == 2
\* the most lines between the delimiters of a text given to the decoder
MaxLines == 3

(***************************************************************************)
(* String primitives of the JavaScript runtime, as the code uses them.     *)
(***************************************************************************)
NL == "\n"
SP == " "

\* \s restricted to the characters of the model
IsSpace(c) == c \in {SP, NL}

\* \w : [A-Za-z0-9_]
WordChars ==
    {"a","b","c","d","e","f","g","h","i","j","k","l","m","n","o","p","q","r",
     "s","t","u","v","w","x","y","z",
     "A","B","C","D","E","F","G","H","I","J","K","L","M","N","O","P","Q","R",
     "S","T","U","V","W","X","Y","Z",
     "0","1","2","3","4","5","6","7","8","9","_"}

UpperCase == <<"A","B","C","D","E","F","G","H","I","J","K","L","M","N","O","P",
               "Q","R","S","T","U","V","W","X","Y","Z">>
LowerCase == <<"a","b","c","d","e","f","g","h","i","j","k","l","m","n","o","p",
               "q","r","s","t","u","v","w","x","y","z">>

LowerChar(c) ==
    IF \E i \in 1..Len(UpperCase) : UpperCase[i] = c
    THEN LowerCase[CHOOSE i \in 1..Len(UpperCase) : UpperCase[i] = c]
    ELSE c

\* String.prototype.toLowerCase
toLowerCase(s) == [i \in 1..Len(s) |-> LowerChar(s[i])]

\* s.startsWith(p, i - 1), positions counted from 1
StartsWithAt(s, i, p) ==
    /\ i >= 1
    /\ i + Len(p) - 1 <= Len(s)
    /\ \A k \in 1..Len(p) : s[i + k - 1] = p[k]

\* String.prototype.endsWith
endsWith(s, p) == Len(p) <= Len(s) /\ StartsWithAt(s, Len(s) - Len(p) + 1, p)

\* s.indexOf(p, from - 1) + 1: the first position >= from where p occurs, 0 if none
IndexOf(s, p, from) ==
    LET I == {i \in from..(Len(s) + 1) : StartsWithAt(s, i, p)}
    IN  IF I = {} THEN 0 ELSE CHOOSE i \in I : \A j \in I : i <= j

\* String.prototype.includes
includes(s, p) == IndexOf(s, p, 1) # 0

\* String.prototype.trim
trim(s) ==
    LET I == {i \in 1..Len(s) : ~IsSpace(s[i])}
    IN  IF I = {} THEN <<>>
        ELSE SubSeq(s, CHOOSE i \in I : \A j \in I : i <= j,
                       CHOOSE i \in I : \A j \in I : i >= j)

\* String.prototype.split with a one-character separator
RECURSIVE split(_, _)
split(s, sep) ==
    LET i == IndexOf(s, <<sep>>, 1)
    IN  IF i = 0 \/ i > Len(s) THEN <<s>>
        ELSE <<SubSeq(s, 1, i - 1)>> \o split(SubSeq(s, i + 1, Len(s)), sep)

\* Array.prototype.join
RECURSIVE join(_, _)
join(parts, sep) ==
    IF parts = <<>> THEN <<>>
    ELSE IF Len(parts) = 1 THEN parts[1]
    ELSE parts[1] \o sep \o join(Tail(parts), sep)

\* Array.prototype.filter(Boolean) on an array of strings: drops the empty ones
RECURSIVE filterNonEmpty(_)
filterNonEmpty(parts) ==
    IF parts = <<>> THEN <<>>
    ELSE IF parts[1] = <<>> THEN filterNonEmpty(Tail(parts))
    ELSE <<parts[1]>> \o filterNonEmpty(Tail(parts))

\* Array.prototype.includes
arrayIncludes(arr, x) == \E i \in 1..Len(arr) : arr[i] = x

\* the elements of a sequence
Range(seq) == {seq[i] : i \in 1..Len(seq)}

\* an optional value is <<>> (undefined) or <<v>>
Some(v) == <<v>>
None == <<>>

(***************************************************************************)
(* Front-matter codec (FileSystemRepository.parseLearning and              *)
(* serializeLearning).                                                     *)
(***************************************************************************)
Dashes == <<"-", "-", "-">>
KeyTitle == <<"t","i","t","l","e">>
KeyTopic == <<"t","o","p","i","c">>
KeyTags == <<"t","a","g","s">>
KeyCreated == <<"c","r","e","a","t","e","d">>
KeyRelated == <<"r","e","l","a","t","e","d">>

ErrMissingFrontMatter == "Invalid learning format: missing front matter"
ErrEmptyFrontMatter == "Invalid learning format: empty front matter"
ErrMissingRequired == "Invalid learning: missing required metadata (title, topic, created)"
ErrNoEnt == "ENOENT"

\* markdown.match(/^---\n([\s\S]*?)\n---\n([\s\S]*)$/): None, or the two groups
frontMatterMatch(markdown) ==
    IF ~StartsWithAt(markdown, 1, Dashes \o <<NL>>) THEN None
    ELSE LET i == IndexOf(markdown, <<NL>> \o Dashes \o <<NL>>, Len(Dashes) + 2)
         IN  IF i = 0 THEN None
             ELSE Some([frontMatter |-> SubSeq(markdown, Len(Dashes) + 2, i - 1),
                        content |-> SubSeq(markdown, i + Len(Dashes) + 2, Len(markdown))])

\* line.match(/^(\w+):\s*(.+)$/): None, or key and value. The greedy \s* gives
\* back its last character when nothing else is left for (.+).
lineMatch(line) ==
    LET N == {i \in 1..Len(line) : line[i] \notin WordChars}
        k == IF N = {} THEN Len(line) ELSE (CHOOSE i \in N : \A j \in N : i <= j) - 1
        rest == SubSeq(line, k + 2, Len(line))
        J == {i \in 1..Len(rest) : ~IsSpace(rest[i])}
    IN  IF k = 0 \/ k + 1 > Len(line) THEN None
        ELSE IF line[k + 1] # ":" \/ rest = <<>> THEN None
        ELSE IF J = {} THEN Some([key |-> SubSeq(line, 1, k), value |-> <<rest[Len(rest)]>>])
        ELSE Some([key |-> SubSeq(line, 1, k),
                   value |-> SubSeq(rest, CHOOSE i \in J : \A j \in J : i <= j, Len(rest))])

\* value.replace(/^\[|\]$/g, "")
stripBrackets(value) ==
    LET v == IF value # <<>> /\ value[1] = "[" THEN Tail(value) ELSE value
    IN  IF v # <<>> /\ v[Len(v)] = "]" THEN SubSeq(v, 1, Len(v) - 1) ELSE v

\* value.replace(...).split(",").map((s) => s.trim()).filter(Boolean)
parseArray(value) ==
    LET parts == split(stripBrackets(value), ",")
    IN  filterNonEmpty([i \in 1..Len(parts) |-> trim(parts[i])])

\* the matches of the lines of the front matter, line by line
lineMatches(lines) == [i \in 1..Len(lines) |-> lineMatch(lines[i])]

\* the value the forEach leaves in metadata[key]: the last matching line wins
lastValue(matches, key) ==
    LET I == {i \in 1..Len(matches) : matches[i] # None /\ matches[i][1].key = key}
    IN  IF I = {} THEN None
        ELSE Some(matches[CHOOSE i \in I : \A j \in I : i >= j][1].value)

\* metadata[key] for a scalar key: value.trim(); <<>> when the key was never set
scalarField(matches, key) ==
    LET v == lastValue(matches, key)
    IN  IF v = None THEN <<>> ELSE trim(v[1])

\* metadata[key] || [] for an array key
arrayField(matches, key) ==
    LET v == lastValue(matches, key)
    IN  IF v = None THEN <<>> ELSE parseArray(v[1])

\* the check of the mandatory fields forgetting created
missingRequiredButCreated(title, topic, created) == title = <<>> \/ topic = <<>>

\* if (!metadata.title || !metadata.topic || !metadata.created)
missingRequired(title, topic, created) ==
    title = <<>> \/ topic = <<>> \/ created = <<>>

parseLearning(markdown) ==
    LET m == frontMatterMatch(markdown)
    IN  IF m = None THEN [ok |-> FALSE, error |-> ErrMissingFrontMatter]
        ELSE IF m[1].frontMatter = <<>> THEN [ok |-> FALSE, error |-> ErrEmptyFrontMatter]
        ELSE LET matches == lineMatches(split(m[1].frontMatter, NL))
                 title == scalarField(matches, KeyTitle)
                 topic == scalarField(matches, KeyTopic)
                 created == scalarField(matches, KeyCreated)
             IN  IF missingRequired(title, topic, created)
                 THEN [ok |-> FALSE, error |-> ErrMissingRequired]
                 ELSE [ok |-> TRUE,
                       metadata |-> [title |-> title,
                                     topic |-> topic,
                                     tags |-> arrayField(matches, KeyTags),
                                     created |-> created,
                                     related |-> arrayField(matches, KeyRelated)],
                       content |-> trim(m[1].content)]

CommaSpace == <<",", SP>>
ColonSpace == <<":", SP>>

serializeLearning(metadata, content) ==
    LET frontMatter ==
            join(<<Dashes,
                   KeyTitle \o ColonSpace \o metadata.title,
                   KeyTopic \o ColonSpace \o metadata.topic,
                   KeyTags \o ColonSpace \o <<"[">> \o join(metadata.tags, CommaSpace) \o <<"]">>,
                   KeyCreated \o ColonSpace \o metadata.created,
                   KeyRelated \o ColonSpace \o <<"[">> \o join(metadata.related, CommaSpace) \o <<"]">>,
                   Dashes>>, <<NL>>)
    IN  frontMatter \o <<NL, NL>> \o content

(***************************************************************************)
(* FileSystemRepository: a directory is a function from the names of its   *)
(* entries to their text.                                                  *)
(***************************************************************************)
DotMd == <<".","m","d">>
ReadmeMd == <<"R","E","A","D","M","E",".","m","d">>

\* the orders in which readdir may return the entries of a directory
readdir(dir) ==
    {entries \in [1..Cardinality(DOMAIN dir) -> DOMAIN dir] :
        \A i, j \in 1..Cardinality(DOMAIN dir) : entries[i] = entries[j] => i = j}

IsLearningFile(f) == endsWith(f, DotMd) /\ f # ReadmeMd

\* the filter without the reserved name
listFilesWithReadme(entries) == SelectSeq(entries, LAMBDA f : endsWith(f, DotMd))

\* files.filter((f) => f.endsWith(".md") && f !== "README.md")
listFiles(entries) == SelectSeq(entries, IsLearningFile)

\* read answering a missing entry with an empty document
readMissingAsEmpty(dir, filename) ==
    IF filename \notin DOMAIN dir
    THEN [ok |-> TRUE, filename |-> filename, content |-> <<>>,
          metadata |-> [title |-> <<>>, topic |-> <<>>, tags |-> <<>>,
                        created |-> <<>>, related |-> <<>>]]
    ELSE LET parsed == parseLearning(dir[filename])
         IN  IF ~parsed.ok THEN parsed
             ELSE [ok |-> TRUE, filename |-> filename,
                   metadata |-> parsed.metadata, content |-> parsed.content]

read(dir, filename) ==
    IF filename \notin DOMAIN dir THEN [ok |-> FALSE, error |-> ErrNoEnt]
    ELSE LET parsed == parseLearning(dir[filename])
         IN  IF ~parsed.ok THEN parsed
             ELSE [ok |-> TRUE, filename |-> filename,
                   metadata |-> parsed.metadata, content |-> parsed.content]

\* write that leaves an existing entry as it is
writeIfAbsent(dir, filename, metadata, content) ==
    [f \in DOMAIN dir \cup {filename} |->
        IF f \in DOMAIN dir THEN dir[f] ELSE serializeLearning(metadata, content)]

write(dir, filename, metadata, content) ==
    [f \in DOMAIN dir \cup {filename} |->
        IF f = filename THEN serializeLearning(metadata, content) ELSE dir[f]]

\* delete with the unlink going to another path: the entry stays
deleteElsewhere(dir, filename) == dir

\* unlink of an existing entry (unlink of a missing one throws ENOENT)
delete(dir, filename) == [f \in DOMAIN dir \ {filename} |-> dir[f]]

\* the topic filter comparing without regard to case
topicPassesAnyCase(learning, options) ==
    ~(/\ options.topic # None
      /\ options.topic[1] # <<>>
      /\ toLowerCase(learning.metadata.topic) # toLowerCase(options.topic[1]))

\* if (options.topic && learning.metadata.topic !== options.topic) continue
topicPasses(learning, options) ==
    ~(/\ options.topic # None
      /\ options.topic[1] # <<>>
      /\ learning.metadata.topic # options.topic[1])

\* the tags filter with some in place of every
tagsPassSome(learning, options) ==
    (options.tags # None /\ Len(options.tags[1]) > 0) =>
        \E i \in 1..Len(options.tags[1]) :
            arrayIncludes(learning.metadata.tags, options.tags[1][i])

\* if (options.tags && options.tags.length > 0) { every ... includes }
tagsPass(learning, options) ==
    (options.tags # None /\ Len(options.tags[1]) > 0) =>
        \A i \in 1..Len(options.tags[1]) :
            arrayIncludes(learning.metadata.tags, options.tags[1][i])

\* the text filter without lower-casing the query
textPassesRawQuery(learning, options) ==
    (options.search # None /\ options.search[1] # <<>>) =>
        includes(toLowerCase(learning.metadata.title \o <<SP>> \o learning.content),
                 options.search[1])

\* if (options.search) { fullText.includes(searchLower) }
textPasses(learning, options) ==
    (options.search # None /\ options.search[1] # <<>>) =>
        includes(toLowerCase(learning.metadata.title \o <<SP>> \o learning.content),
                 toLowerCase(options.search[1]))

\* the filters with a document kept as soon as one of them passes
passesAny(learning, options) ==
    \/ topicPasses(learning, options)
    \/ tagsPass(learning, options)
    \/ textPasses(learning, options)

\* the three filters of the loop body: a document failing one is skipped
passes(learning, options) ==
    /\ topicPasses(learning, options)
    /\ tagsPass(learning, options)
    /\ textPasses(learning, options)

\* the loop passing over a file that fails to read or decode
RECURSIVE searchLoopSkipping(_, _, _)
searchLoopSkipping(dir, files, options) ==
    IF files = <<>> THEN [ok |-> TRUE, results |-> <<>>]
    ELSE LET learning == read(dir, files[1])
             rest == searchLoopSkipping(dir, Tail(files), options)
         IN  IF learning.ok /\ passes(learning, options)
             THEN [ok |-> TRUE,
                   results |-> <<[filename |-> learning.filename,
                                  title |-> learning.metadata.title,
                                  topic |-> learning.metadata.topic]>>
                               \o rest.results]
             ELSE rest

\* the for loop of search over the listed files, in their order; the first
\* read that throws ends the loop
RECURSIVE searchLoop(_, _, _)
searchLoop(dir, files, options) ==
    IF files = <<>> THEN [ok |-> TRUE, results |-> <<>>]
    ELSE LET learning == read(dir, files[1])
         IN  IF ~learning.ok THEN [ok |-> FALSE, error |-> learning.error]
             ELSE LET rest == searchLoop(dir, Tail(files), options)
                  IN  IF ~rest.ok THEN rest
                      ELSE IF passes(learning, options)
                      THEN [ok |-> TRUE,
                            results |-> <<[filename |-> learning.filename,
                                           title |-> learning.metadata.title,
                                           topic |-> learning.metadata.topic]>>
                                        \o rest.results]
                      ELSE rest

\* search, given the order readdir returned
search(dir, entries, options) == searchLoop(dir, listFiles(entries), options)

(***************************************************************************)
(* LearningsModule.add: the file name, metadata and body it writes.        *)
(***************************************************************************)
HeadingContext == <<"#","#",SP,"C","o","n","t","e","x","t">>
HeadingExamples == <<"#","#",SP,"E","x","a","m","p","l","e","s">>
HeadingSeeAlso == <<"#","#",SP,"S","e","e",SP,"A","l","s","o">>

\* params.filename.endsWith(".md") ? params.filename : `${params.filename}.md`
normalizedFilename(filename) ==
    IF endsWith(filename, DotMd) THEN filename ELSE filename \o DotMd

\* new Date().toISOString().split("T")[0] on day number d of October 2025
isoDate(d) ==
    <<"2","0","2","5","-","1","0","-","0">>
        \o <<(<<"0","1","2","3","4","5","6","7","8","9">>)[d + 1]>>

\* params.tags || [] and params.related || []
orEmpty(opt) == IF opt = None THEN <<>> ELSE opt[1]

addMetadata(params, day) ==
    [title |-> params.title,
     topic |-> params.topic,
     tags |-> orEmpty(params.tags),
     created |-> isoDate(day),
     related |-> orEmpty(params.related)]

\* `- [${r}](./${r})`
seeAlsoLine(r) == <<"-",SP,"[">> \o r \o <<"]","(",".","/">> \o r \o <<")">>

addContent(params) ==
    <<"#",SP>> \o params.title \o <<NL, NL>>
        \o params.oneLiner \o <<NL, NL>>
        \o HeadingContext \o <<NL, NL>>
        \o params.context \o <<NL, NL>>
        \o HeadingExamples \o <<NL, NL>>
        \o params.examples
        \o (IF params.related # None /\ Len(params.related[1]) > 0
            THEN <<NL, NL>> \o HeadingSeeAlso \o <<NL, NL>>
                 \o join([i \in 1..Len(params.related[1]) |->
                             seeAlsoLine(params.related[1][i])], <<NL>>)
            ELSE <<>>)

(***************************************************************************)
(* The inputs the operations are called with.                              *)
(***************************************************************************)
FileA == <<"a">>
FileAMd == <<"a",".","m","d">>
FileB == <<"b">>
FileBMd == <<"b",".","m","d">>
FileReadme == <<"R","E","A","D","M","E">>

TitleGo == <<"G","o">>
TagK == <<"k">>
TagJ == <<"j">>
TagZ == <<"z">>
TopicQ == <<"q">>
TopicUpperQ == <<"Q">>

\* the file names add is called with
Filenames == {FileA, FileAMd, FileB, FileReadme}

\* the file names get and remove are called with
StoredNames == {FileA, FileAMd, FileBMd, ReadmeMd}

\* title, topic, tags, oneLiner and related of the add calls; context and
\* examples are the same in all of them
Bodies ==
    {[title |-> TitleGo, topic |-> TopicQ, tags |-> Some(<<TagK, TagJ>>),
      oneLiner |-> <<"h","i">>, related |-> None],
     [title |-> TitleGo, topic |-> TopicUpperQ, tags |-> Some(<<TagK>>),
      oneLiner |-> <<"z","z">>, related |-> Some(<<FileBMd, FileAMd>>)],
     [title |-> <<SP,"G","o">>, topic |-> TopicQ, tags |-> Some(<<<<"k",",","j">>>>),
      oneLiner |-> <<"h","i">>, related |-> None],
     [title |-> <<SP>>, topic |-> TopicQ, tags |-> None,
      oneLiner |-> <<"h","i">>, related |-> None]}

AddParams ==
    {[filename |-> f, title |-> b.title, topic |-> b.topic, tags |-> b.tags,
      oneLiner |-> b.oneLiner, context |-> <<"u">>, examples |-> <<"v">>,
      related |-> b.related] : f \in Filenames, b \in Bodies}

\* the options search is called with
SearchOptions ==
    [topic : {None, Some(TopicQ), Some(TopicUpperQ), Some(<<>>)},
     tags : {None, Some(<<>>), Some(<<TagK>>), Some(<<TagJ, TagK>>), Some(<<TagK, TagZ>>)},
     search : {None, Some(<<>>), Some(<<"g","o">>), Some(<<"H","I">>), Some(TagK)}]

\* the options list is called with between the mutations
ListOptions ==
    {[topic |-> None, tags |-> None, search |-> None],
     [topic |-> Some(TopicQ), tags |-> None, search |-> None],
     [topic |-> None, tags |-> Some(<<TagK>>), search |-> None],
     [topic |-> None, tags |-> None, search |-> Some(<<"H","I">>)],
     [topic |-> Some(TopicQ), tags |-> Some(<<TagJ, TagK>>), search |-> Some(<<"g","o">>)]}

(***************************************************************************)
(* The operations of LearningsModule on one backend.                       *)
(***************************************************************************)
NoCodec == [kind |-> "none"]

\* a repository without a commit: nothing staged, nothing pushed, no command run
NoGit ==
    [head |-> <<>>, index |-> <<>>, remote |-> <<>>, log |-> <<>>, dirty |-> FALSE,
     blame |-> <<>>]

Init ==
    /\ fs = <<>>
    /\ today = 1
    /\ ret = [op |-> "init"]
    /\ live = {}
    /\ removed = {}
    /\ cin = NoCodec
    /\ cout = NoCodec
    /\ lfs = <<>>
    /\ git = NoGit
    /\ pc = <<>>

\* add(params): always writes; the directory is kept to MaxFiles entries.
\* ret.existed notes whether the name was in the directory before the call.
Add(params) ==
    LET name == normalizedFilename(params.filename)
    IN  /\ name \in DOMAIN fs \/ Cardinality(DOMAIN fs) < MaxFiles
        /\ fs' = write(fs, name, addMetadata(params, today), addContent(params))
        /\ ret' = [op |-> "add", ok |-> TRUE, params |-> params, filename |-> name,
                   existed |-> name \in DOMAIN fs]
        /\ live' = live \cup {name}
        /\ removed' = removed \ {name}
        /\ UNCHANGED <<today, cin, cout, lfs, git, pc>>

\* remove(filename): unlink, which throws when the entry is missing
Remove(filename) ==
    /\ IF filename \in DOMAIN fs
       THEN /\ fs' = delete(fs, filename)
            /\ ret' = [op |-> "remove", ok |-> TRUE, filename |-> filename]
            /\ live' = live \ {filename}
            /\ removed' = removed \cup {filename}
       ELSE /\ ret' = [op |-> "remove", ok |-> FALSE, filename |-> filename,
                       error |-> ErrNoEnt]
            /\ UNCHANGED <<fs, live, removed>>
    /\ UNCHANGED <<today, cin, cout, lfs, git, pc>>

\* get(filename)
Get(filename) ==
    /\ ret' = [op |-> "get", filename |-> filename, result |-> read(fs, filename)]
    /\ UNCHANGED <<fs, today, live, removed, cin, cout, lfs, git, pc>>

\* list(options), with readdir returning the entries in some order
List(options) ==
    /\ \E entries \in readdir(fs) :
          ret' = [op |-> "list", options |-> options,
                  result |-> search(fs, entries, options)]
    /\ UNCHANGED <<fs, today, live, removed, cin, cout, lfs, git, pc>>

Next ==
    \/ \E params \in AddParams : Add(params)
    \/ \E filename \in StoredNames : Remove(filename)
    \/ \E filename \in StoredNames : Get(filename)
    \/ \E options \in ListOptions : List(options)

Spec == Init /\ [][Next]_vars

(***************************************************************************)
(* search as a function of the directory and the options: the directory is *)
(* one that add calls leave behind, and search is applied to it once.      *)
(***************************************************************************)
NormalizedNames == {normalizedFilename(f) : f \in Filenames}

\* the text add writes for params on day 1
addedText(params) == serializeLearning(addMetadata(params, 1), addContent(params))

Directories ==
    UNION {[S -> {addedText(p) : p \in AddParams}] :
              S \in {N \in SUBSET NormalizedNames : Cardinality(N) <= MaxFiles}}

InitSearch ==
    /\ fs \in Directories
    /\ today = 1
    /\ ret = [op |-> "init"]
    /\ live = DOMAIN fs
    /\ removed = {}
    /\ cin = NoCodec
    /\ cout = NoCodec
    /\ lfs = <<>>
    /\ git = NoGit
    /\ pc = <<>>

SearchOnce(options) == ret.op = "init" /\ List(options)

NextSearch == \E options \in SearchOptions : SearchOnce(options)

SpecSearch == InitSearch /\ [][NextSearch]_vars

(***************************************************************************)
(* The codec on its own: an input is drawn, encoded when it is a document, *)
(* and decoded.                                                            *)
(***************************************************************************)
\* documents with a title, a topic and a date
CodecDocs ==
    [metadata : [title : {TitleGo, <<"G","o",SP>>},
                 topic : {TopicQ},
                 tags : {<<>>, <<TagK>>, <<TagK, TagJ>>, <<TagK, TagK>>, <<<<"k",",","j">>>>},
                 created : {isoDate(1)},
                 related : {<<>>, <<FileBMd, FileAMd>>}],
     content : {<<"h","i">>, <<SP,"h","i",NL>>, <<>>, <<"a",NL>> \o Dashes \o <<NL,"b">>}]

\* the lines a text is made of
CodecLines ==
    {KeyTitle \o ColonSpace \o TitleGo,
     KeyTitle \o ColonSpace \o <<SP>>,
     KeyTopic \o ColonSpace \o TopicQ,
     KeyCreated \o ColonSpace \o isoDate(1),
     KeyTags \o ColonSpace \o <<"[","k","]">>,
     <<>>,
     Dashes}

CodecBlocks == UNION {[1..n -> CodecLines] : n \in 0..MaxLines}

\* a first line, up to MaxLines lines, a last line, and a line end or none
CodecTexts ==
    {join(<<first>> \o block \o <<last>>, <<NL>>) \o end :
        first \in {Dashes, <<"-","-">>}, block \in CodecBlocks,
        last \in {Dashes, <<"-","-">>}, end \in {<<>>, <<NL>>}}

InitCodec ==
    /\ fs = <<>>
    /\ today = 1
    /\ ret = [op |-> "init"]
    /\ live = {}
    /\ removed = {}
    /\ cin \in {[kind |-> "doc", metadata |-> d.metadata, content |-> d.content] :
                   d \in CodecDocs}
               \cup {[kind |-> "text", text |-> t] : t \in CodecTexts}
    /\ cout = NoCodec
    /\ lfs = <<>>
    /\ git = NoGit
    /\ pc = <<>>

\* serializeLearning of the document drawn
Encode ==
    /\ cin.kind = "doc"
    /\ cout = NoCodec
    /\ cout' = [kind |-> "encoded", text |-> serializeLearning(cin.metadata, cin.content)]
    /\ UNCHANGED <<fs, today, ret, live, removed, cin, lfs, git, pc>>

\* parseLearning of the text drawn, or of the text encoded
Decode ==
    /\ \/ cin.kind = "text" /\ cout = NoCodec
       \/ cout.kind = "encoded"
    /\ LET text == IF cin.kind = "text" THEN cin.text ELSE cout.text
       IN  cout' = [kind |-> "decoded", text |-> text, result |-> parseLearning(text)]
    /\ UNCHANGED <<fs, today, ret, live, removed, cin, lfs, git, pc>>

NextCodec == Encode \/ Decode

SpecCodec == InitCodec /\ [][NextCodec]_vars

(***************************************************************************)
(* Vocabulary of the properties.                                           *)
(***************************************************************************)
NoOptions == [topic |-> None, tags |-> None, search |-> None]

\* the documents of a backend: the entries search goes through
Documents(dir) == {f \in DOMAIN dir : IsLearningFile(f)}

\* the file names of a list of search results
ResultNames(results) == {results[i].filename : i \in 1..Len(results)}

\* p occurs in s
IsSubstring(p, s) ==
    \E i \in 0..(Len(s) - Len(p)) : \A k \in 1..Len(p) : s[i + k] = p[k]

\* a non-empty string without a line break
IsNonEmptyLine(s) == s # <<>> /\ \A i \in 1..Len(s) : s[i] # NL

\* one result per name in want, each the summary of that document
IsSummaryOf(results, dir, want) ==
    /\ ResultNames(results) = want
    /\ Len(results) = Cardinality(want)
    /\ \A i \in 1..Len(results) :
          LET doc == read(dir, results[i].filename)
          IN  /\ results[i].title = doc.metadata.title
              /\ results[i].topic = doc.metadata.topic

ListReturned == ret.op = "list" /\ ret.result.ok

(***************************************************************************)
(* C1: after any sequence of successful add and remove calls on a backend  *)
(* that starts empty (titles and topics non-empty and single-line),        *)
(* list({}) returns exactly one result per file name that was added and    *)
(* not removed since, in whatever order the directory is read.             *)
(***************************************************************************)
C1_ListReflectsMutations ==
    (\A p \in AddParams : IsNonEmptyLine(p.title) /\ IsNonEmptyLine(p.topic)) =>
        \A entries \in readdir(fs) :
            LET r == search(fs, entries, NoOptions)
            IN  /\ r.ok
                /\ ResultNames(r.results) = live
                /\ Len(r.results) = Cardinality(live)

(***************************************************************************)
(* C2: after add(params) succeeds, get(returned filename) returns title,   *)
(* topic, tags and related equal to the values passed ([] when omitted)    *)
(* and a content that contains oneLiner, context and examples.             *)
(***************************************************************************)
C2_AddGetRoundTrip ==
    ret.op = "add" =>
        LET g == read(fs, ret.filename)
        IN  /\ g.ok
            /\ g.metadata.title = ret.params.title
            /\ g.metadata.topic = ret.params.topic
            /\ g.metadata.tags = (IF ret.params.tags = None THEN <<>> ELSE ret.params.tags[1])
            /\ g.metadata.related =
                   (IF ret.params.related = None THEN <<>> ELSE ret.params.related[1])
            /\ IsSubstring(ret.params.oneLiner, g.content)
            /\ IsSubstring(ret.params.context, g.content)
            /\ IsSubstring(ret.params.examples, g.content)

(***************************************************************************)
(* C3: once remove(f) has succeeded and until f is added again, get(f)     *)
(* fails and no list returns a result named f; and the remove leaves every *)
(* other entry as it was, so that what list({}) returned before, it        *)
(* returns after, less the result for f.                                   *)
(***************************************************************************)
C3_RemovedIsGone ==
    \A f \in removed :
        /\ ~read(fs, f).ok
        /\ (ret.op = "get" /\ ret.filename = f) => ~ret.result.ok
        /\ ListReturned => f \notin ResultNames(ret.result.results)

C3_RemoveKeepsOthers ==
    (ret'.op = "remove" /\ ret'.ok) =>
        /\ DOMAIN fs' = DOMAIN fs \ {ret'.filename}
        /\ \A g \in DOMAIN fs' : fs'[g] = fs[g]
        /\ LET before == search(fs, CHOOSE e \in readdir(fs) : TRUE, NoOptions)
               after == search(fs', CHOOSE e \in readdir(fs') : TRUE, NoOptions)
           IN  before.ok =>
                 /\ after.ok
                 /\ Range(after.results) =
                       {x \in Range(before.results) : x.filename # ret'.filename}

C3_RemoveThenAbsent == []C3_RemovedIsGone /\ [][C3_RemoveKeepsOthers]_vars

\* a remove of a decodable document succeeded while another document stays listed
C3_Witness ==
    /\ ret.op = "remove" /\ ret.ok
    /\ ret.filename \in removed
    /\ \E g \in Documents(fs) : read(fs, g).ok

(***************************************************************************)
(* C4: add returns and stores the file name with the extension ".md": a    *)
(* name without it gets it appended, a name that ends in it is kept, and   *)
(* get finds the document under the returned name.                         *)
(***************************************************************************)
C4_FilenameNormalized ==
    ret.op = "add" =>
        /\ endsWith(ret.filename, DotMd)
        /\ IF endsWith(ret.params.filename, DotMd)
           THEN ret.filename = ret.params.filename
           ELSE ret.filename = ret.params.filename \o DotMd
        /\ ret.filename \in DOMAIN fs
        /\ read(fs, ret.filename).ok

(***************************************************************************)
(* Properties of search, for a list that returned.                         *)
(***************************************************************************)
OnlyTopic == ListReturned /\ ret.options.topic # None
                 /\ ret.options.tags = None /\ ret.options.search = None
OnlyTags == ListReturned /\ ret.options.tags # None
                 /\ ret.options.topic = None /\ ret.options.search = None
OnlyText == ListReturned /\ ret.options.search # None
                 /\ ret.options.topic = None /\ ret.options.tags = None

\* the documents whose topic is T
WithTopic(dir, T) == {f \in Documents(dir) : read(dir, f).metadata.topic = T}

\* the documents that carry every tag of S
WithTags(dir, S) ==
    {f \in Documents(dir) : Range(S) \subseteq Range(read(dir, f).metadata.tags)}

\* the documents with Q, lower-cased, in the lower-cased title + " " + content
WithText(dir, Q) ==
    {f \in Documents(dir) :
        IsSubstring(toLowerCase(Q),
                    toLowerCase(read(dir, f).metadata.title \o <<SP>>
                                    \o read(dir, f).content))}

(***************************************************************************)
(* C7 as stated: search({topic: T}) returns exactly the documents whose    *)
(* topic equals T, one result each, for every string T.                    *)
(***************************************************************************)
C7_TopicAnyString ==
    OnlyTopic => IsSummaryOf(ret.result.results, fs, WithTopic(fs, ret.options.topic[1]))

(***************************************************************************)
(* C7 as amended: search({topic: T}) with a non-empty T returns exactly    *)
(* the documents whose topic equals T (case-sensitive), one result each;   *)
(* with the empty string as T it returns every document.                   *)
(***************************************************************************)
C7_TopicExact ==
    OnlyTopic =>
        IF ret.options.topic[1] # <<>>
        THEN IsSummaryOf(ret.result.results, fs, WithTopic(fs, ret.options.topic[1]))
        ELSE IsSummaryOf(ret.result.results, fs, Documents(fs))

\* a search by topic returned one document and left out one whose topic
\* differs in case only
C7_Witness ==
    /\ OnlyTopic
    /\ ret.options.topic[1] = TopicQ
    /\ Len(ret.result.results) = 1
    /\ \E f \in Documents(fs) : read(fs, f).metadata.topic = TopicUpperQ

(***************************************************************************)
(* C8: search({tags: S}) returns exactly the documents whose tags contain  *)
(* every tag of S, in any order and among any other tags.                  *)
(***************************************************************************)
C8_TagsAllPresent ==
    OnlyTags => IsSummaryOf(ret.result.results, fs, WithTags(fs, ret.options.tags[1]))

\* a search for two tags, given in the other order than the document has
\* them, returned that document and left out one that has only one of them
C8_Witness ==
    /\ OnlyTags
    /\ ret.options.tags[1] = <<TagJ, TagK>>
    /\ \E f \in ResultNames(ret.result.results) :
          read(fs, f).metadata.tags = <<TagK, TagJ>>
    /\ \E f \in Documents(fs) \ ResultNames(ret.result.results) :
          read(fs, f).metadata.tags = <<TagK>>

(***************************************************************************)
(* C9: search({search: Q}) returns exactly the documents for which the     *)
(* lower-cased Q occurs in the lower-cased title + " " + content; tags,    *)
(* topic and file name are not searched.                                   *)
(***************************************************************************)
C9_TextSubstring ==
    OnlyText => IsSummaryOf(ret.result.results, fs, WithText(fs, ret.options.search[1]))

\* an upper-case query returned a document with the words in lower case and
\* left out another document
C9_Witness ==
    /\ OnlyText
    /\ ret.options.search[1] = <<"H","I">>
    /\ Len(ret.result.results) = 1
    /\ Cardinality(Documents(fs)) = 2

\* what each filter of the options asks of a document, a filter that is not
\* supplied asking nothing
SatisfiesSupplied(doc, options) ==
    /\ options.topic # None => doc.metadata.topic = options.topic[1]
    /\ options.tags # None => Range(options.tags[1]) \subseteq Range(doc.metadata.tags)
    /\ options.search # None =>
           IsSubstring(toLowerCase(options.search[1]),
                       toLowerCase(doc.metadata.title \o <<SP>> \o doc.content))

\* the same, an empty topic string asking nothing either
SatisfiesNonEmpty(doc, options) ==
    SatisfiesSupplied(doc, [options EXCEPT
        !.topic = IF options.topic = Some(<<>>) THEN None ELSE options.topic])

(***************************************************************************)
(* C10 as stated: a document is returned exactly when it satisfies every   *)
(* supplied filter, a filter that is absent matching every document;       *)
(* search({}) returns all documents, and [] on an empty backend.           *)
(***************************************************************************)
C10_AllSuppliedFilters ==
    ListReturned =>
        IsSummaryOf(ret.result.results, fs,
                    {f \in Documents(fs) : SatisfiesSupplied(read(fs, f), ret.options)})

(***************************************************************************)
(* C10 as amended: a document is returned exactly when it satisfies every  *)
(* supplied filter, a filter that is absent, and a topic filter that is    *)
(* the empty string, matching every document; search({}) returns all       *)
(* documents, and [] on an empty backend.                                  *)
(***************************************************************************)
C10_ConjunctionOfFilters ==
    /\ ListReturned =>
          IsSummaryOf(ret.result.results, fs,
                      {f \in Documents(fs) : SatisfiesNonEmpty(read(fs, f), ret.options)})
    /\ (ListReturned /\ ret.options = NoOptions) =>
          ResultNames(ret.result.results) = Documents(fs)
    /\ (ret.op = "list" /\ Documents(fs) = {}) =>
          ret.result = [ok |-> TRUE, results |-> <<>>]

\* a search with all three filters returned one of two documents, the other
\* one passing the tags and the text filter and failing the topic filter
C10_Witness ==
    /\ ListReturned
    /\ ret.options = [topic |-> Some(TopicQ), tags |-> Some(<<TagK>>),
                      search |-> Some(<<"g","o">>)]
    /\ Len(ret.result.results) = 1
    /\ \E f \in Documents(fs) \ ResultNames(ret.result.results) :
          SatisfiesSupplied(read(fs, f), [ret.options EXCEPT !.topic = None])

(***************************************************************************)
(* C5: for any metadata with a title, a topic and a date, and any content, *)
(* decoding the encoded text gives the metadata back field for field       *)
(* (tags and related in order, duplicates kept) and the content trimmed.   *)
(***************************************************************************)
C5_CodecRoundTrip ==
    (cin.kind = "doc" /\ cout.kind = "decoded") =>
        /\ cout.result.ok
        /\ cout.result.metadata = cin.metadata
        /\ cout.result.content = trim(cin.content)

\* the lines of a text, the first line that closes the block, and the block
TextLines(text) == split(text, NL)
ClosingLines(lines) == {j \in 3..(Len(lines) - 1) : lines[j] = Dashes}
BlockOf(lines) ==
    SubSeq(lines, 2, (CHOOSE j \in ClosingLines(lines) :
                          \A k \in ClosingLines(lines) : j <= k) - 1)

\* a line of the block gives key a value that is not blank
HasValue(block, key) ==
    \E i \in 1..Len(block) :
        /\ StartsWithAt(block[i], 1, key \o <<":">>)
        /\ \E k \in (Len(key) + 2)..Len(block[i]) : ~IsSpace(block[i][k])

\* the text has the opening and the closing delimiter line, a block that is
\* not empty, and a value for title, topic and created
IsComplete(text) ==
    LET lines == TextLines(text)
    IN  /\ Len(lines) >= 2 /\ lines[1] = Dashes
        /\ ClosingLines(lines) # {}
        /\ BlockOf(lines) # <<<<>>>>
        /\ \A key \in {KeyTitle, KeyTopic, KeyCreated} : HasValue(BlockOf(lines), key)

(***************************************************************************)
(* C6: decode fails with a format error and returns no document whenever   *)
(* the text lacks the opening or the closing delimiter line, has an empty  *)
(* metadata block, or lacks a non-empty value for title, topic or created, *)
(* whatever else it holds; a document it returns has the title, topic and  *)
(* created of the text, none of them empty.                                *)
(***************************************************************************)
C6_DecodeRejectsIncomplete ==
    cout.kind = "decoded" =>
        /\ ~IsComplete(cout.text) =>
              /\ ~cout.result.ok
              /\ DOMAIN cout.result = {"ok", "error"}
              /\ cout.result.error \in
                    {ErrMissingFrontMatter, ErrEmptyFrontMatter, ErrMissingRequired}
        /\ cout.result.ok =>
              \A key \in {KeyTitle, KeyTopic, KeyCreated} :
                  LET v == CASE key = KeyTitle -> cout.result.metadata.title
                             [] key = KeyTopic -> cout.result.metadata.topic
                             [] key = KeyCreated -> cout.result.metadata.created
                  IN  /\ v # <<>>
                      /\ \E i \in 1..Len(BlockOf(TextLines(cout.text))) :
                            /\ StartsWithAt(BlockOf(TextLines(cout.text))[i], 1,
                                            key \o <<":">>)
                            /\ IsSubstring(v, BlockOf(TextLines(cout.text))[i])

\* a text with both delimiter lines, a title, a topic and tags, and no
\* created, was refused
C6_Witness ==
    /\ cout.kind = "decoded"
    /\ cin.kind = "text"
    /\ LET lines == TextLines(cout.text)
       IN  /\ Len(lines) >= 2 /\ lines[1] = Dashes
           /\ ClosingLines(lines) # {}
           /\ HasValue(BlockOf(lines), KeyTitle)
           /\ HasValue(BlockOf(lines), KeyTopic)
           /\ HasValue(BlockOf(lines), KeyTags)
    /\ cout.result = [ok |-> FALSE, error |-> ErrMissingRequired]

(***************************************************************************)
(* The metadata aggregator, LearningsModule.getMetadata: one read per      *)
(* listed file, a tally of the topics and of the tags, and the two lists   *)
(* in descending order of count, equal counts in ascending order of value. *)
(***************************************************************************)
\* the most documents of a directory the aggregator is applied to
MaxDocs == 3

\* the characters in the order of their code units
CharOrder == UpperCase \o LowerCase

CharCode(c) ==
    IF \E i \in 1..Len(CharOrder) : CharOrder[i] = c
    THEN CHOOSE i \in 1..Len(CharOrder) : CharOrder[i] = c
    ELSE 0

\* a < b, character by character
RECURSIVE lexLess(_, _)
lexLess(a, b) ==
    IF b = <<>> THEN FALSE
    ELSE IF a = <<>> THEN TRUE
    ELSE IF a[1] = b[1] THEN lexLess(Tail(a), Tail(b))
    ELSE CharCode(a[1]) < CharCode(b[1])

\* the tally after counting the values one by one
RECURSIVE tally(_, _)
tally(values, counts) ==
    IF values = <<>> THEN counts
    ELSE LET v == values[1]
             n == IF v \in DOMAIN counts THEN counts[v] + 1 ELSE 1
         IN  tally(Tail(values),
                   [w \in DOMAIN counts \cup {v} |-> IF w = v THEN n ELSE counts[w]])

\* the comparison taking the smaller count first
beforeAscendingCount(counts, v, w) ==
    \/ counts[v] < counts[w]
    \/ counts[v] = counts[w] /\ lexLess(v, w)

\* v sorts before w: the larger count, or the same count and the smaller value
before(counts, v, w) ==
    \/ counts[v] > counts[w]
    \/ counts[v] = counts[w] /\ lexLess(v, w)

\* the values of the tally, sorted
RECURSIVE sortByCount(_, _)
sortByCount(counts, left) ==
    IF left = {} THEN <<>>
    ELSE LET first == CHOOSE v \in left : \A w \in left \ {v} : before(counts, v, w)
         IN  <<first>> \o sortByCount(counts, left \ {first})

\* the documents of the files, in their order, or the first error
RECURSIVE readAll(_, _)
readAll(dir, files) ==
    IF files = <<>> THEN [ok |-> TRUE, learnings |-> <<>>]
    ELSE LET after(learning, rest) ==
                 IF ~learning.ok THEN [ok |-> FALSE, error |-> learning.error]
                 ELSE IF ~rest.ok THEN rest
                 ELSE [ok |-> TRUE, learnings |-> <<learning>> \o rest.learnings]
         IN  after(read(dir, files[1]), readAll(dir, Tail(files)))

RECURSIVE concat(_)
concat(seqs) == IF seqs = <<>> THEN <<>> ELSE seqs[1] \o concat(Tail(seqs))

getMetadata(dir, entries) ==
    LET aggregate(all) ==
            IF ~all.ok THEN all
            ELSE LET topics == tally([i \in 1..Len(all.learnings) |->
                                          all.learnings[i].metadata.topic], <<>>)
                     tags == tally(concat([i \in 1..Len(all.learnings) |->
                                          all.learnings[i].metadata.tags]), <<>>)
                 IN  [ok |-> TRUE,
                      topics |-> sortByCount(topics, DOMAIN topics),
                      tags |-> sortByCount(tags, DOMAIN tags)]
    IN  aggregate(readAll(dir, listFiles(entries)))

\* the names of the files of the aggregator's directories: a.md, b.md, ...
MetaNames == {<<LowerCase[i]>> \o DotMd : i \in 1..MaxDocs}

\* the texts of those files: documents of two topics and three tag lists,
\* and a text that is no document
MetaTexts ==
    {serializeLearning([title |-> TitleGo, topic |-> t, tags |-> g,
                        created |-> isoDate(1), related |-> <<>>], <<"h","i">>) :
        t \in {TopicQ, TopicUpperQ}, g \in {<<>>, <<TagK>>, <<TagK, TagJ>>}}
    \cup {<<"x">>}

MetaDirectories == UNION {[S -> MetaTexts] : S \in SUBSET MetaNames}

InitMeta ==
    /\ fs \in MetaDirectories
    /\ today = 1
    /\ ret = [op |-> "init"]
    /\ live = DOMAIN fs
    /\ removed = {}
    /\ cin = NoCodec
    /\ cout = NoCodec
    /\ lfs = <<>>
    /\ git = NoGit
    /\ pc = <<>>

GetMetadata ==
    /\ ret.op = "init"
    /\ \E entries \in readdir(fs) :
          ret' = [op |-> "getMetadata", result |-> getMetadata(fs, entries)]
    /\ UNCHANGED <<fs, today, live, removed, cin, cout, lfs, git, pc>>

NextMeta == GetMetadata

SpecMeta == InitMeta /\ [][NextMeta]_vars

\* how often v is the topic of a document of dir
TopicCount(dir, v) ==
    Cardinality({f \in Documents(dir) : read(dir, f).metadata.topic = v})

\* how often v occurs among the tags of the documents of dir
TagCount(dir, v) ==
    Cardinality(UNION {{<<f, i>> : i \in {j \in 1..Len(read(dir, f).metadata.tags) :
                                              read(dir, f).metadata.tags[j] = v}} :
                          f \in Documents(dir)})

\* list holds each value of want once, in descending order of count and,
\* for equal counts, in ascending order of value
IsRanking(list, want, Count(_)) ==
    /\ Range(list) = want
    /\ Len(list) = Cardinality(want)
    /\ \A i \in 1..(Len(list) - 1) :
          \/ Count(list[i]) > Count(list[i + 1])
          \/ Count(list[i]) = Count(list[i + 1]) /\ lexLess(list[i], list[i + 1])

MetadataReturned == ret.op = "getMetadata" /\ ret.result.ok

(***************************************************************************)
(* C11: getMetadata returns the topics and the tags of the documents, each *)
(* value once, in descending order of occurrence count, equal counts in    *)
(* ascending lexicographic order; documents with the topics q, q, Q give   *)
(* the topics <<q, Q>>.                                                    *)
(***************************************************************************)
C11_MetadataRanking ==
    MetadataReturned =>
        LET TC(v) == TopicCount(fs, v)
            GC(v) == TagCount(fs, v)
            docs == {read(fs, f) : f \in Documents(fs)}
        IN  /\ IsRanking(ret.result.topics, {d.metadata.topic : d \in docs}, TC)
            /\ IsRanking(ret.result.tags,
                         UNION {Range(d.metadata.tags) : d \in docs}, GC)
            /\ (Cardinality(Documents(fs)) = 3 /\ TC(TopicQ) = 2 /\ TC(TopicUpperQ) = 1)
                   => ret.result.topics = <<TopicQ, TopicUpperQ>>

\* three documents of the topics q, q, Q, with tags whose counts tie
C11_Witness ==
    /\ MetadataReturned
    /\ TopicCount(fs, TopicQ) = 2
    /\ TopicCount(fs, TopicUpperQ) = 1
    /\ ret.result.topics = <<TopicQ, TopicUpperQ>>
    /\ Len(ret.result.tags) = 2

(***************************************************************************)
(* The repository on a directory that also holds entries it did not write: *)
(* other extensions, no extension, the reserved README.md.  One operation  *)
(* is applied to the directory drawn.                                      *)
(***************************************************************************)
FileTxt == <<"a",".","t","x","t">>
FileAmd == <<"a","m","d">>

\* the names of the entries
EntryNames == {FileAMd, FileBMd, ReadmeMd, FileTxt, FileAmd, FileA}

\* their texts: two documents and a text that is no document
EntryTexts ==
    {serializeLearning([title |-> TitleGo, topic |-> TopicQ, tags |-> <<TagK>>,
                        created |-> isoDate(1), related |-> <<>>], <<"h","i">>),
     serializeLearning([title |-> TitleGo, topic |-> TopicUpperQ, tags |-> <<TagJ>>,
                        created |-> isoDate(1), related |-> <<>>], <<"z","z">>),
     <<"x">>}

EntryDirectories ==
    UNION {[S -> EntryTexts] :
              S \in {N \in SUBSET EntryNames : Cardinality(N) <= MaxFiles}}

InitFiles ==
    /\ fs \in EntryDirectories
    /\ today = 1
    /\ ret = [op |-> "init"]
    /\ live = DOMAIN fs
    /\ removed = {}
    /\ cin = NoCodec
    /\ cout = NoCodec
    /\ lfs = <<>>
    /\ git = NoGit
    /\ pc = <<>>

\* listFiles(), with readdir returning the entries in some order
ListFiles ==
    /\ ret.op = "init"
    /\ \E entries \in readdir(fs) :
          ret' = [op |-> "listFiles", files |-> listFiles(entries)]
    /\ UNCHANGED <<fs, today, live, removed, cin, cout, lfs, git, pc>>

GetOnce(filename) == ret.op = "init" /\ Get(filename)

NextFiles ==
    \/ ListFiles
    \/ \E options \in ListOptions : SearchOnce(options)
    \/ GetMetadata
    \/ \E filename \in EntryNames : GetOnce(filename)

SpecFiles == InitFiles /\ [][NextFiles]_vars

\* the name ends in the three characters ".md"
HasExtension(f) == Len(f) >= 3 /\ SubSeq(f, Len(f) - 2, Len(f)) = <<".", "m", "d">>

\* the entries listFiles is to return
Listed(dir) == {f \in DOMAIN dir : HasExtension(f) /\ f # ReadmeMd}

\* the directory without the other entries
OnlyListed(dir) == [f \in Listed(dir) |-> dir[f]]

\* listFiles returns the entries ending in ".md" except README.md, each once
C20_ListFilesExact ==
    ret.op = "listFiles" =>
        /\ Range(ret.files) = Listed(fs)
        /\ Len(ret.files) = Cardinality(Listed(fs))

\* list and getMetadata return what they return without the other entries
C20_OthersNotSearched ==
    /\ ret.op = "list" =>
          /\ \E entries \in readdir(OnlyListed(fs)) :
                ret.result = search(OnlyListed(fs), entries, ret.options)
          /\ ret.result.ok => ResultNames(ret.result.results) \subseteq Listed(fs)
    /\ ret.op = "getMetadata" =>
          \E entries \in readdir(OnlyListed(fs)) :
              ret.result = getMetadata(OnlyListed(fs), entries)

(***************************************************************************)
(* C20: listFiles returns exactly the entries ending in ".md" except       *)
(* README.md, each once; and the other entries are never read, searched or *)
(* counted: list and getMetadata return what they return on the directory  *)
(* without them.                                                           *)
(***************************************************************************)
C20_ListedOnly == C20_ListFilesExact /\ C20_OthersNotSearched

\* a list that returned one result from a directory that holds README.md
\* with the text of a document
C20_Witness ==
    /\ ListReturned
    /\ ReadmeMd \in DOMAIN fs
    /\ parseLearning(fs[ReadmeMd]).ok
    /\ Len(ret.result.results) = 1

(***************************************************************************)
(* LearningsModule over several days: the date add stamps is that of the   *)
(* day of the call.                                                        *)
(***************************************************************************)
\* the last day of the model
MaxDay == 2

\* the add calls: the names a and b, with the title Go
DateParams == {p \in AddParams : p.filename \in {FileA, FileB} /\ p.title = TitleGo}

DateNames == {normalizedFilename(p.filename) : p \in DateParams}

\* midnight passes
Tick ==
    /\ today < MaxDay
    /\ today' = today + 1
    /\ ret' = [op |-> "tick"]
    /\ UNCHANGED <<fs, live, removed, cin, cout, lfs, git, pc>>

NextDates ==
    \/ \E params \in DateParams : Add(params)
    \/ \E filename \in DateNames : Remove(filename)
    \/ \E filename \in DateNames : Get(filename)
    \/ Tick

SpecDates == Init /\ [][NextDates]_vars

(***************************************************************************)
(* C19: the created date of a document never changes after the add that    *)
(* made it.  Between two successive get(f) calls without a remove(f) the    *)
(* steps taken are adds, gets, removes of other names and days passing, so *)
(* no such step changes the created date get(f) returns, a repeated add of *)
(* f on a later day included.                                              *)
(***************************************************************************)
C19_CreatedStep ==
    \A f \in DateNames :
        (read(fs, f).ok /\ read(fs', f).ok)
            => read(fs', f).metadata.created = read(fs, f).metadata.created

C19_CreatedNeverChanges == [][C19_CreatedStep]_vars

(***************************************************************************)
(* JavaScript Number arithmetic.  A Number is an IEEE 754 double: here a   *)
(* positive one is [m, x], the value 0.m * 2^x, with m its 53 significant  *)
(* bits in three limbs <<high, mid, low>> of 18, 18 and 17 bits, the first *)
(* bit of high being 1; zero is Zero.  Results are rounded to nearest,     *)
(* ties to even.  The integers of the model are 32 bits wide, so that the  *)
(* divisor stays below 2^13 and the integer factor below 2^12.             *)
(***************************************************************************)
\* 2^18 and 2^17, the sizes of the limbs
Limb == 262144
LowLimb == 131072

Zero == [m |-> <<0, 0, 0>>, x |-> 0]
One == [m |-> <<LowLimb, 0, 0>>, x |-> 1]

RECURSIVE Pow2(_)
Pow2(k) == IF k = 0 THEN 1 ELSE 2 * Pow2(k - 1)

\* round to nearest, ties to even: m the 53 bits kept, guard the first bit
\* dropped, sticky whether any later bit dropped is 1
roundToNearestEven(m, guard, sticky, x) ==
    IF ~(guard = 1 /\ (sticky \/ m[3] % 2 = 1)) THEN [m |-> m, x |-> x]
    ELSE IF m[3] + 1 < LowLimb THEN [m |-> <<m[1], m[2], m[3] + 1>>, x |-> x]
    ELSE IF m[2] + 1 < Limb THEN [m |-> <<m[1], m[2] + 1, 0>>, x |-> x]
    ELSE IF m[1] + 1 < Limb THEN [m |-> <<m[1] + 1, 0, 0>>, x |-> x]
    ELSE [m |-> <<LowLimb, 0, 0>>, x |-> x + 1]

\* the zero bits of r / t after the point before its first 1 bit
RECURSIVE leadingZeros(_, _)
leadingZeros(r, t) == IF 2 * r >= t THEN 0 ELSE 1 + leadingZeros(2 * r, t)

\* a / b for integers 0 <= a <= b, 0 < b < 2^13, by long division, 18 bits
\* of the quotient at a time
numberDivide(a, b) ==
    IF a = 0 THEN Zero
    ELSE IF a = b THEN One
    ELSE LET z == leadingZeros(a, b)
             r0 == a * Pow2(z)
             q1 == (r0 * Limb) \div b
             r1 == (r0 * Limb) % b
             q2 == (r1 * Limb) \div b
             r2 == (r1 * Limb) % b
             q3 == (r2 * Limb) \div b
             r3 == (r2 * Limb) % b
         IN  roundToNearestEven(<<q1, q2, q3 \div 2>>, q3 % 2, r3 # 0, 0 - z)

\* n * d for an integer 0 <= n < 2^12 and a Number d >= 0: the exact
\* product limb by limb, then rounded to 53 bits
numberMultiply(n, d) ==
    IF n = 0 \/ d = Zero THEN Zero
    ELSE LET plow == d.m[3] * n
             pmid == d.m[2] * n + plow \div LowLimb
             phigh == d.m[1] * n + pmid \div Limb
             mid == pmid % Limb
             low == plow % LowLimb
             \* the bits of the product beyond 53
             e == CHOOSE k \in 0..12 : phigh \div Pow2(k) \in LowLimb..(Limb - 1)
             E == Pow2(e)
         IN  IF e = 0 THEN [m |-> <<phigh, mid, low>>, x |-> d.x]
             ELSE roundToNearestEven(
                      <<phigh \div E,
                        (phigh % E) * (Limb \div E) + mid \div E,
                        (mid % E) * (LowLimb \div E) + low \div E>>,
                      (low \div (E \div 2)) % 2,
                      low % (E \div 2) # 0,
                      d.x + e)

\* Math.ceil of a Number 0 <= d < 2^18, as an integer
ceil(d) ==
    IF d = Zero THEN 0
    ELSE IF d.x <= 0 THEN 1
    ELSE LET F == Pow2(18 - d.x)
         IN  d.m[1] \div F
                 + (IF d.m[1] % F # 0 \/ d.m[2] # 0 \/ d.m[3] # 0 THEN 1 ELSE 0)

\* array.slice(0, end)
slice(array, end) ==
    IF end >= 0
    THEN SubSeq(array, 1, IF end < Len(array) THEN end ELSE Len(array))
    ELSE SubSeq(array, 1, Len(array) + end)

(***************************************************************************)
(* The split of the limit between the scopes in the list_learnings handler *)
(* and the list command, as a function of the limit and the two raw result *)
(* lists.                                                                  *)
(***************************************************************************)
\* the largest limit and the most raw results of a scope
MaxLimit == 25
MaxCount == 18

\* Math.ceil(limit * (globalResults.length / totalResults)), the rest of
\* the limit, and the two slices; totalResults is not 0
\* the split giving what one scope leaves of its share to the other
allocateRedistributing(limit, globalResults, localResults) ==
    LET totalResults == Len(globalResults) + Len(localResults)
        globalLimit == ceil(numberMultiply(limit,
                               numberDivide(Len(globalResults), totalResults)))
        localLimit == limit - globalLimit
        globalSpare == IF Len(globalResults) < globalLimit
                       THEN globalLimit - Len(globalResults) ELSE 0
        localSpare == IF Len(localResults) < localLimit
                      THEN localLimit - Len(localResults) ELSE 0
    IN  [globalLimit |-> globalLimit,
         localLimit |-> localLimit,
         displayGlobal |-> slice(globalResults, globalLimit + localSpare),
         displayLocal |-> slice(localResults, localLimit + globalSpare)]

allocate(limit, globalResults, localResults) ==
    LET totalResults == Len(globalResults) + Len(localResults)
        globalLimit == ceil(numberMultiply(limit,
                               numberDivide(Len(globalResults), totalResults)))
        localLimit == limit - globalLimit
    IN  [globalLimit |-> globalLimit,
         localLimit |-> localLimit,
         displayGlobal |-> slice(globalResults, globalLimit),
         displayLocal |-> slice(localResults, localLimit)]

\* n results of a scope, told apart by their position
someResults(scope, n) == [i \in 1..n |-> <<scope, i>>]

InitShares ==
    /\ fs = <<>>
    /\ today = 1
    /\ ret = [op |-> "init"]
    /\ live = {}
    /\ removed = {}
    /\ cin \in [kind : {"counts"}, limit : 0..MaxLimit,
                global : 0..MaxCount, local : 0..MaxCount]
    /\ cout = NoCodec
    /\ lfs = <<>>
    /\ git = NoGit
    /\ pc = <<>>

\* the handler from the raw results on: nothing to split when there is no
\* result
Allocate ==
    /\ ret.op = "init"
    /\ LET globalResults == someResults("global", cin.global)
           localResults == someResults("local", cin.local)
       IN  ret' = IF cin.global + cin.local = 0
                  THEN [op |-> "shares", found |-> FALSE]
                  ELSE [op |-> "shares", found |-> TRUE,
                        shown |-> allocate(cin.limit, globalResults, localResults)]
    /\ UNCHANGED <<fs, today, live, removed, cin, cout, lfs, git, pc>>

NextShares == Allocate

SpecShares == InitShares /\ [][NextShares]_vars

\* the smallest integer not below n / d, for integers n >= 0 and d > 0
CeilingOfQuotient(n, d) == (n + d - 1) \div d

(***************************************************************************)
(* C12: with limit L and raw counts g and l, g + l > 0, the global share   *)
(* is the ceiling of L * g / (g + l) and the local share is the rest of L; *)
(* both are non-negative and sum to L (6, 8, 2 give 5 and 1), and each     *)
(* scope shows its first share-many results.                               *)
(***************************************************************************)
C12_CeilingShares ==
    (ret.op = "shares" /\ ret.found) =>
        LET L == cin.limit
            g == cin.global
            l == cin.local
            share == CeilingOfQuotient(L * g, g + l)
        IN  /\ ret.shown.globalLimit = share
            /\ ret.shown.localLimit = L - share
            /\ ret.shown.globalLimit >= 0
            /\ ret.shown.localLimit >= 0
            /\ ret.shown.globalLimit + ret.shown.localLimit = L
            /\ (L = 6 /\ g = 8 /\ l = 2) =>
                   ret.shown.globalLimit = 5 /\ ret.shown.localLimit = 1
            /\ ret.shown.displayGlobal =
                   someResults("global", IF share < g THEN share ELSE g)
            /\ ret.shown.displayLocal =
                   someResults("local", IF L - share < l THEN L - share ELSE l)

(***************************************************************************)
(* The tool handlers over the two scopes: the global backend on fs and the *)
(* local backend on lfs, both plain directories here.                      *)
(***************************************************************************)
ScopeGlobal == "global"
ScopeLocal == "local"

\* the handler taking every scope but "global" for the local one
targetLearningsUnlessGlobal(scope) ==
    IF scope = Some(ScopeGlobal) THEN ScopeGlobal ELSE ScopeLocal

\* scope === "local" ? localLearnings : globalLearnings, an omitted scope
\* having become "global"
targetLearnings(scope) ==
    IF scope = Some(ScopeLocal) THEN ScopeLocal ELSE ScopeGlobal

\* [...new Set(array)]: each value once, at its first place
RECURSIVE unique(_)
unique(array) ==
    IF array = <<>> THEN <<>>
    ELSE LET front == unique(SubSeq(array, 1, Len(array) - 1))
             last == array[Len(array)]
         IN  IF arrayIncludes(front, last) THEN front ELSE Append(front, last)

\* the lookup that gives up on the local scope once the global one answered
getLearningGlobalFirst(globalGet, localGet, filename) ==
    IF globalGet.ok
    THEN [op |-> "get_learning", filename |-> filename, isError |-> FALSE,
          global |-> Some(globalGet), local |-> None]
    ELSE IF localGet.ok
    THEN [op |-> "get_learning", filename |-> filename, isError |-> FALSE,
          global |-> None, local |-> Some(localGet)]
    ELSE [op |-> "get_learning", filename |-> filename, isError |-> TRUE,
          error |-> "Learning not found"]

\* the get_learning handler after Promise.allSettled of the two gets
getLearning(globalGet, localGet, filename) ==
    LET globalLearning == IF globalGet.ok THEN Some(globalGet) ELSE None
        localLearning == IF localGet.ok THEN Some(localGet) ELSE None
    IN  IF globalLearning = None /\ localLearning = None
        THEN [op |-> "get_learning", filename |-> filename, isError |-> TRUE,
              error |-> "Learning not found"]
        ELSE [op |-> "get_learning", filename |-> filename, isError |-> FALSE,
              global |-> globalLearning, local |-> localLearning]

\* the handler taking the results of a failed read for no results
listLearningsPartial(reads, options, limit, error) ==
    LET globalResults == IF reads[1].ok THEN reads[1].results ELSE <<>>
        localResults == IF reads[2].ok THEN reads[2].results ELSE <<>>
    IN  [op |-> "list_learnings", options |-> options, limit |-> limit,
         isError |-> FALSE, found |-> Len(globalResults) + Len(localResults) > 0,
         globalResults |-> globalResults, localResults |-> localResults]

\* the list_learnings handler after its four reads <<global list, local
\* list, global metadata, local metadata>>; error is the rejection that
\* Promise.all passes on when a read failed
listLearnings(reads, options, limit, error) ==
    LET head == [op |-> "list_learnings", options |-> options, limit |-> limit]
    IN  IF \E i \in 1..4 : ~reads[i].ok
        THEN head @@ [isError |-> TRUE, error |-> error]
        ELSE LET globalResults == reads[1].results
                 localResults == reads[2].results
                 vocabulary ==
                     [allTopics |-> unique(reads[3].topics \o reads[4].topics),
                      allTags |-> unique(reads[3].tags \o reads[4].tags)]
             IN  IF Len(globalResults) + Len(localResults) = 0
                 THEN head @@ vocabulary @@ [isError |-> FALSE, found |-> FALSE]
                 ELSE head @@ vocabulary
                          @@ allocate(limit, globalResults, localResults)
                          @@ [isError |-> FALSE, found |-> TRUE,
                              globalCount |-> Len(globalResults),
                              localCount |-> Len(localResults)]

\* the add calls of the handlers: the names a and b, a document and one
\* with a blank title
DualParams ==
    {p \in AddParams : /\ p.filename \in {FileA, FileB}
                       /\ p.topic = TopicQ
                       /\ p.tags \in {None, Some(<<TagK, TagJ>>)}}

DualNames == {FileAMd, FileBMd}

\* the scope argument of add_learning
AddScopes == {None, Some(ScopeGlobal), Some(ScopeLocal)}

\* the limits of list_learnings
Limits == {0, 1, 6}

\* add_learning
AddLearning(params, scope) ==
    LET name == normalizedFilename(params.filename)
        metadata == addMetadata(params, today)
        content == addContent(params)
    IN  /\ IF targetLearnings(scope) = ScopeLocal
           THEN lfs' = write(lfs, name, metadata, content) /\ fs' = fs
           ELSE fs' = write(fs, name, metadata, content) /\ lfs' = lfs
        /\ ret' = [op |-> "add_learning", isError |-> FALSE, scope |-> scope,
                   filename |-> name]
        /\ UNCHANGED <<today, live, removed, cin, cout, git, pc>>

\* remove_learning
RemoveLearning(filename, scope) ==
    LET local == targetLearnings(Some(scope)) = ScopeLocal
        dir == IF local THEN lfs ELSE fs
    IN  /\ IF filename \in DOMAIN dir
           THEN /\ IF local
                   THEN lfs' = delete(lfs, filename) /\ fs' = fs
                   ELSE fs' = delete(fs, filename) /\ lfs' = lfs
                /\ ret' = [op |-> "remove_learning", isError |-> FALSE,
                           scope |-> Some(scope), filename |-> filename]
           ELSE /\ ret' = [op |-> "remove_learning", isError |-> TRUE,
                           scope |-> Some(scope), filename |-> filename,
                           error |-> ErrNoEnt]
                /\ UNCHANGED <<fs, lfs, pc>>
        /\ UNCHANGED <<today, live, removed, cin, cout, git, pc>>

\* get_learning
GetLearning(filename) ==
    /\ ret' = getLearning(read(fs, filename), read(lfs, filename), filename)
    /\ UNCHANGED <<fs, today, live, removed, cin, cout, lfs, git, pc>>

\* list_learnings: the four reads, each on the entries in some order, and
\* the rejection of one of the reads that failed
ListLearnings(options, limit) ==
    /\ \E ge \in readdir(fs), le \in readdir(lfs) :
          \E reads \in {<<search(fs, ge, options), search(lfs, le, options),
                          getMetadata(fs, ge), getMetadata(lfs, le)>>} :
              \E error \in IF \A i \in 1..4 : reads[i].ok THEN {"none"}
                            ELSE {reads[i].error : i \in {j \in 1..4 : ~reads[j].ok}} :
                  ret' = listLearnings(reads, options, limit, error)
    /\ UNCHANGED <<fs, today, live, removed, cin, cout, lfs, git, pc>>

NextDual ==
    \/ \E params \in DualParams, scope \in AddScopes : AddLearning(params, scope)
    \/ \E filename \in DualNames, scope \in {ScopeGlobal, ScopeLocal} :
          RemoveLearning(filename, scope)
    \/ \E filename \in DualNames : GetLearning(filename)
    \/ \E limit \in Limits : ListLearnings(NoOptions, limit)

SpecDual == Init /\ [][NextDual]_vars

\* some listed file of dir fails to read
HasUnreadable(dir) == \E f \in Documents(dir) : ~read(dir, f).ok

(***************************************************************************)
(* C13: get over the two scopes returns the global document exactly when   *)
(* the global get succeeds and the local one exactly when the local get    *)
(* succeeds; a failure of one side, missing file or undecodable text, is   *)
(* not passed on, and "not found" is reported exactly when both fail.      *)
(***************************************************************************)
C13_DualGet ==
    ret.op = "get_learning" =>
        LET globalGet == read(fs, ret.filename)
            localGet == read(lfs, ret.filename)
        IN  /\ ret.isError <=> (~globalGet.ok /\ ~localGet.ok)
            /\ ret.isError => ret.error = "Learning not found"
            /\ ~ret.isError =>
                  /\ ret.global = (IF globalGet.ok THEN Some(globalGet) ELSE None)
                  /\ ret.local = (IF localGet.ok THEN Some(localGet) ELSE None)

\* the global file is there and undecodable, and the local document is
\* returned
C13_Witness ==
    /\ ret.op = "get_learning"
    /\ ~ret.isError
    /\ ret.filename \in DOMAIN fs
    /\ ret.global = None
    /\ ret.local # None

(***************************************************************************)
(* C14: list over the two scopes fails as a whole whenever one of its four *)
(* reads fails: it returns the error of a failed read and no result of     *)
(* either scope, also when the reads of the other scope succeed.           *)
(***************************************************************************)
C14_DualListAllOrNothing ==
    ret.op = "list_learnings" =>
        /\ ret.isError <=> (HasUnreadable(fs) \/ HasUnreadable(lfs))
        /\ ret.isError =>
              /\ DOMAIN ret = {"op", "options", "limit", "isError", "error"}
              /\ ret.error \in {read(fs, f).error :
                                   f \in {d \in Documents(fs) : ~read(fs, d).ok}}
                               \cup {read(lfs, f).error :
                                   f \in {d \in Documents(lfs) : ~read(lfs, d).ok}}

\* the global scope has an undecodable file, the local scope has documents
\* and all of them read
C14_Witness ==
    /\ ret.op = "list_learnings"
    /\ ret.isError
    /\ HasUnreadable(fs)
    /\ Documents(lfs) # {}
    /\ ~HasUnreadable(lfs)

\* dir and after differ at most in the entry name
SameButFor(dir, after, name) ==
    /\ DOMAIN dir \ {name} = DOMAIN after \ {name}
    /\ \A f \in DOMAIN dir \ {name} : after[f] = dir[f]

\* an add or remove that returned acted on target and left other as it was
ActedOnOne(target, targetAfter, other, otherAfter) ==
    /\ otherAfter = other
    /\ SameButFor(target, targetAfter, ret'.filename)
    /\ IF ret'.isError THEN targetAfter = target
       ELSE IF ret'.op = "add_learning" THEN ret'.filename \in DOMAIN targetAfter
       ELSE ret'.filename \in DOMAIN target /\ ret'.filename \notin DOMAIN targetAfter

C15_ScopeStep ==
    ret'.op \in {"add_learning", "remove_learning"} =>
        IF ret'.scope = Some(ScopeLocal)
        THEN ActedOnOne(lfs, lfs', fs, fs')
        ELSE ActedOnOne(fs, fs', lfs, lfs')

(***************************************************************************)
(* C15: add and remove act on one backend, the local one when the scope is *)
(* "local" and the global one otherwise, an omitted scope of add included; *)
(* the other backend's entries and texts are unchanged, whether the        *)
(* operation succeeds or fails.                                            *)
(***************************************************************************)
C15_OneScopeOnly == [][C15_ScopeStep]_vars

\* a name held by both scopes was removed from the local one and is still
\* in the global one
C15_Witness ==
    /\ ret.op = "remove_learning"
    /\ ~ret.isError
    /\ ret.scope = Some(ScopeLocal)
    /\ ret.filename \in DOMAIN fs
    /\ ret.filename \notin DOMAIN lfs

(***************************************************************************)
(* The git-synchronized backend, GitHubRepository.  The base directory is   *)
(* the learnings directory of a clone: fs is its working tree, git.index    *)
(* what is staged of it, git.head the last commit, git.remote the branch at *)
(* the remote, git.dirty whether the clone has uncommitted changes outside  *)
(* the base directory, and git.log the file-system call and the git         *)
(* commands of the last operation with their outcomes, in the order they    *)
(* ran.  Any git command may fail, and a command that fails changes         *)
(* nothing.                                                                 *)
(***************************************************************************)
\* the git command that fails during an operation, if it is reached
GitFailures == {"none", "add", "status", "commit", "push"}

\* one call of the log, with its outcome
Ran(h, cmd, ok) == [h EXCEPT !.log = Append(@, [cmd |-> cmd, ok |-> ok])]

\* the commit taking only the file the message names
commitOnlyNamed(g, dir, message) ==
    LET name == message[2]
        names == IF name \in DOMAIN dir
                 THEN DOMAIN g.head \cup {name} ELSE DOMAIN g.head \ {name}
    IN  [g EXCEPT !.head = [f \in names |-> IF f = name THEN dir[f] ELSE g.head[f]],
                  !.blame = [f \in names |-> IF f = name THEN message ELSE g.blame[f]]]

\* git commit -m message of the staged tree dir: the commit becomes the
\* head, and each file the commit adds or changes carries its message
commit(g, dir, message) ==
    [g EXCEPT !.head = dir,
              !.blame = [f \in DOMAIN dir |->
                            IF f \in DOMAIN g.head /\ g.head[f] = dir[f]
                            THEN g.blame[f] ELSE message]]

\* the sequence that goes on to push when the commit failed
commitAndPushAfterFailedCommit(g, dir, failAt, message) ==
    LET added == [Ran(g, "add", TRUE) EXCEPT !.index = dir]
        checked == Ran(added, "status", TRUE)
        committed == commit(Ran(checked, "commit", TRUE), dir, message)
    IN  IF failAt = "add" THEN [git |-> Ran(g, "add", FALSE), ok |-> FALSE]
        ELSE IF failAt = "status"
        THEN [git |-> Ran(added, "status", FALSE), ok |-> FALSE]
        ELSE IF dir = g.head /\ ~g.dirty THEN [git |-> checked, ok |-> TRUE]
        ELSE IF failAt = "commit" \/ dir = g.head
        THEN [git |-> [Ran(Ran(checked, "commit", FALSE), "push", TRUE)
                          EXCEPT !.remote = g.head],
              ok |-> TRUE]
        ELSE IF failAt = "push"
        THEN [git |-> Ran(committed, "push", FALSE), ok |-> FALSE]
        ELSE [git |-> [Ran(committed, "push", TRUE) EXCEPT !.remote = dir],
              ok |-> TRUE]

\* the sequence that tries a failed push once more
commitAndPushRetrying(g, dir, failAt, message) ==
    LET added == [Ran(g, "add", TRUE) EXCEPT !.index = dir]
        checked == Ran(added, "status", TRUE)
        committed == commit(Ran(checked, "commit", TRUE), dir, message)
    IN  IF failAt = "add" THEN [git |-> Ran(g, "add", FALSE), ok |-> FALSE]
        ELSE IF failAt = "status"
        THEN [git |-> Ran(added, "status", FALSE), ok |-> FALSE]
        ELSE IF dir = g.head /\ ~g.dirty THEN [git |-> checked, ok |-> TRUE]
        ELSE IF failAt = "commit" \/ dir = g.head
        THEN [git |-> Ran(checked, "commit", FALSE), ok |-> FALSE]
        ELSE IF failAt = "push"
        THEN [git |-> [Ran(Ran(committed, "push", FALSE), "push", TRUE)
                          EXCEPT !.remote = dir],
              ok |-> TRUE]
        ELSE [git |-> [Ran(committed, "push", TRUE) EXCEPT !.remote = dir],
              ok |-> TRUE]

\* commitAndPush on the working tree dir.  git add . stages the base
\* directory; git status --porcelain prints the changes of the whole clone,
\* and when it prints nothing the sequence returns; git commit fails when
\* nothing is staged; git push brings the remote to the commit.  The first
\* command that fails throws.
commitAndPush(g, dir, failAt, message) ==
    LET added == [Ran(g, "add", TRUE) EXCEPT !.index = dir]
        checked == Ran(added, "status", TRUE)
        committed == commit(Ran(checked, "commit", TRUE), dir, message)
    IN  IF failAt = "add" THEN [git |-> Ran(g, "add", FALSE), ok |-> FALSE]
        ELSE IF failAt = "status"
        THEN [git |-> Ran(added, "status", FALSE), ok |-> FALSE]
        ELSE IF dir = g.head /\ ~g.dirty THEN [git |-> checked, ok |-> TRUE]
        ELSE IF failAt = "commit" \/ dir = g.head
        THEN [git |-> Ran(checked, "commit", FALSE), ok |-> FALSE]
        ELSE IF failAt = "push"
        THEN [git |-> Ran(committed, "push", FALSE), ok |-> FALSE]
        ELSE [git |-> [Ran(committed, "push", TRUE) EXCEPT !.remote = dir],
              ok |-> TRUE]

ErrGit == "Git command failed"

\* `Add learning: ${filename}` and `Remove learning: ${filename}`
AddMessage(filename) == <<"Add learning", filename>>
RemoveMessage(filename) == <<"Remove learning", filename>>

\* the add calls on this backend: two documents under the name a, one
\* under the name b
GitParams ==
    {p \in AddParams : /\ p.title = TitleGo
                       /\ \/ p.filename = FileA
                          \/ p.filename = FileB /\ p.topic = TopicQ}

\* add on the git-synchronized backend: write, then commitAndPush
GitAdd(params, failAt) ==
    LET name == normalizedFilename(params.filename)
        dir == write(fs, name, addMetadata(params, today), addContent(params))
        sync == commitAndPush([git EXCEPT !.log = <<[cmd |-> "write", ok |-> TRUE]>>],
                              dir, failAt, AddMessage(name))
    IN  /\ fs' = dir
        /\ git' = sync.git
        /\ ret' = IF sync.ok
                  THEN [op |-> "add", ok |-> TRUE, params |-> params, filename |-> name]
                  ELSE [op |-> "add", ok |-> FALSE, params |-> params,
                        filename |-> name, error |-> ErrGit]
        /\ UNCHANGED <<today, live, removed, cin, cout, lfs, pc>>

\* remove on the git-synchronized backend: unlink, which throws when the
\* entry is missing, then commitAndPush
GitRemove(filename, failAt) ==
    /\ IF filename \notin DOMAIN fs
       THEN /\ ret' = [op |-> "remove", ok |-> FALSE, filename |-> filename,
                       error |-> ErrNoEnt]
            /\ git' = [git EXCEPT !.log = <<[cmd |-> "unlink", ok |-> FALSE]>>]
            /\ fs' = fs
       ELSE LET dir == delete(fs, filename)
                sync == commitAndPush(
                            [git EXCEPT !.log = <<[cmd |-> "unlink", ok |-> TRUE]>>],
                            dir, failAt, RemoveMessage(filename))
            IN  /\ fs' = dir
                /\ git' = sync.git
                /\ ret' = IF sync.ok
                          THEN [op |-> "remove", ok |-> TRUE, filename |-> filename]
                          ELSE [op |-> "remove", ok |-> FALSE, filename |-> filename,
                                error |-> ErrGit]
    /\ UNCHANGED <<today, live, removed, cin, cout, lfs, pc>>

\* a file of the clone outside the base directory is edited, or the edit is
\* committed or undone, by its owner
EditOutside ==
    /\ git' = [git EXCEPT !.dirty = ~@, !.log = <<>>]
    /\ ret' = [op |-> "edit"]
    /\ UNCHANGED <<fs, today, live, removed, cin, cout, lfs, pc>>

NextGit ==
    \/ \E params \in GitParams, failAt \in GitFailures : GitAdd(params, failAt)
    \/ \E filename \in DateNames, failAt \in GitFailures : GitRemove(filename, failAt)
    \/ EditOutside

SpecGit == Init /\ [][NextGit]_vars

\* the calls of the last operation, and those among them that failed
Calls(g) == [i \in 1..Len(g.log) |-> g.log[i].cmd]
Called(g, cmd) == \E i \in 1..Len(g.log) : g.log[i].cmd = cmd
FailedCalls(g) == {i \in 1..Len(g.log) : ~g.log[i].ok}
FullSequence(op) ==
    <<IF op = "add" THEN "write" ELSE "unlink", "add", "status", "commit", "push">>

\* C16: a write or delete of the git-synchronized backend runs the file-system
\* mutation, then git add, then git status, then git commit, then git push,
\* in this order and each at most once: no git command runs when the
\* mutation fails, the commit runs only after the status check printed
\* changes, the push runs only after the commit of this operation succeeded,
\* and when nothing fails the sequence runs up to the status check if
\* nothing is reported and to the push otherwise.
C16_OrderStep ==
    ret'.op \in {"add", "remove"} =>
        LET calls == Calls(git')
            n == Len(calls)
            reported == fs' # git.head \/ git.dirty
        IN  /\ n >= 1
            /\ calls = SubSeq(FullSequence(ret'.op), 1, n)
            /\ ~git'.log[1].ok => n = 1
            /\ n >= 4 => git'.log[2].ok /\ git'.log[3].ok /\ reported
            /\ n = 5 => git'.log[4].ok /\ git.head # fs' /\ git'.head = fs'
            /\ FailedCalls(git') = {} => n = IF reported THEN 5 ELSE 3

C16_GitOrder == [][C16_OrderStep]_vars

\* a delete ran the whole sequence
C16_Witness ==
    /\ ret.op = "remove"
    /\ ret.ok
    /\ Calls(git) = FullSequence("remove")
    /\ git.remote = fs

\* C17: a write of the git-synchronized backend that leaves the base
\* directory as it was, everything in it being committed, runs no commit and
\* no push and returns without error unless git add or git status failed;
\* and a commit is attempted, by a write or a delete, only when changes are
\* staged.
C17_NoChangeStep ==
    ret'.op \in {"add", "remove"} =>
        /\ (ret'.op = "add" /\ fs' = fs /\ git.head = fs) =>
               /\ ~Called(git', "commit")
               /\ ~Called(git', "push")
               /\ ret'.ok \/ FailedCalls(git') \cap {2, 3} # {}
        /\ Called(git', "commit") => git'.index # git.head

C17_NoChangeNoCommit == [][C17_NoChangeStep]_vars

\* C18: when a git command of a write or delete fails, the operation fails
\* with the git error, the failed command is the last one run, no command
\* ran twice, and the base directory keeps the mutation: the written file
\* is there as written, the deleted file is gone.
C18_FailureStep ==
    (ret'.op \in {"add", "remove"} /\ FailedCalls(git') \ {1} # {}) =>
        LET n == Len(git'.log)
        IN  /\ ~ret'.ok
            /\ ret'.error = ErrGit
            /\ FailedCalls(git') = {n}
            /\ \A i, j \in 1..n : git'.log[i].cmd = git'.log[j].cmd => i = j
            /\ ret'.op = "add" =>
                   fs' = write(fs, ret'.filename, addMetadata(ret'.params, today),
                               addContent(ret'.params))
            /\ ret'.op = "remove" =>
                   /\ ret'.filename \in DOMAIN fs
                   /\ fs' = delete(fs, ret'.filename)

C18_GitFailureKeepsMutation == [][C18_FailureStep]_vars

\* the push of a write failed: the file is in the base directory and not at
\* the remote
C18_Witness ==
    /\ ret.op = "add"
    /\ ~ret.ok
    /\ ret.error = ErrGit
    /\ Calls(git) = FullSequence("add")
    /\ ~git.log[5].ok
    /\ ret.filename \in DOMAIN fs
    /\ ret.filename \notin DOMAIN git.remote

(***************************************************************************)
(* C21: get and remove of a name that is not in the directory fail with    *)
(* ENOENT and leave the directory, its names and its texts, as it was;     *)
(* remove of a name that is in the directory succeeds, takes that name out *)
(* and leaves every other entry as it was.                                 *)
(***************************************************************************)
C21_NotFoundStep ==
    /\ (ret'.op = "get" /\ ret'.filename \notin DOMAIN fs) =>
           /\ ret'.result = [ok |-> FALSE, error |-> ErrNoEnt]
           /\ fs' = fs
    /\ (ret'.op = "remove" /\ ret'.filename \notin DOMAIN fs) =>
           /\ ~ret'.ok
           /\ ret'.error = ErrNoEnt
           /\ fs' = fs
    /\ (ret'.op = "remove" /\ ret'.filename \in DOMAIN fs) =>
           /\ ret'.ok
           /\ DOMAIN fs' = DOMAIN fs \ {ret'.filename}
           /\ \A g \in DOMAIN fs' : fs'[g] = fs[g]

C21_MissingFails == [][C21_NotFoundStep]_vars

\* a get of a name that is not there failed while the directory holds a file
C21_Witness ==
    /\ ret.op = "get"
    /\ ret.filename \notin DOMAIN fs
    /\ ret.result = [ok |-> FALSE, error |-> ErrNoEnt]
    /\ fs # <<>>

(***************************************************************************)
(* C22: add on a name that is in the directory succeeds and puts in its    *)
(* place the text of the new metadata and content alone, the text add      *)
(* writes for these params on this day into an empty directory, created    *)
(* date included; the names of the directory stay the same and every other *)
(* entry stays as it was.  No step changes the text of an entry other than *)
(* an add on its name.                                                     *)
(***************************************************************************)
C22_OverwriteStep ==
    /\ (ret'.op = "add" /\ ret'.filename \in DOMAIN fs) =>
           LET name == ret'.filename
               fresh == write(<<>>, name, addMetadata(ret'.params, today),
                              addContent(ret'.params))
           IN  /\ ret'.ok
               /\ DOMAIN fs' = DOMAIN fs
               /\ fs'[name] = fresh[name]
               /\ read(fs', name).ok =>
                      read(fs', name).metadata.created = isoDate(today)
               /\ \A g \in DOMAIN fs \ {name} : fs'[g] = fs[g]
    /\ \A f \in DOMAIN fs \cap DOMAIN fs' :
           fs'[f] # fs[f] => ret'.op = "add" /\ ret'.filename = f

C22_AddReplacesWholly == [][C22_OverwriteStep]_vars

\* a document of the first day was replaced on the second by one of another
\* topic, while another document is in the directory
C22_Witness ==
    /\ ret.op = "add"
    /\ ret.ok
    /\ ret.existed
    /\ today = 2
    /\ read(fs, ret.filename).ok
    /\ read(fs, ret.filename).metadata.created = isoDate(2)
    /\ \E g \in DOMAIN fs \ {ret.filename} :
          read(fs, g).ok /\ read(fs, g).metadata.created = isoDate(1)

\* the smaller of two numbers
Min(a, b) == IF a < b THEN a ELSE b

\* how many results the split shows
ShownCount == Len(ret.shown.displayGlobal) + Len(ret.shown.displayLocal)

SharesComputed == ret.op = "shares" /\ ret.found

\* a scope has fewer results than its share of the limit
ShareExceedsCount ==
    \/ cin.global < ret.shown.globalLimit
    \/ cin.local < ret.shown.localLimit

\* C23 as stated: whenever a scope has fewer results than its share, fewer
\* than min(limit, total) results are shown.
C23_UnderFills ==
    (SharesComputed /\ ShareExceedsCount) =>
        ShownCount < Min(cin.limit, cin.global + cin.local)

(***************************************************************************)
(* C23: when a scope has fewer results than its share of the limit, what   *)
(* it leaves of its share is not given to the other scope: each scope      *)
(* shows its first results up to its own share and no more.  Fewer than    *)
(* min(limit, total) results are shown exactly when the other scope has    *)
(* more results than its own share; when both scopes have no more than     *)
(* their shares every result is shown.                                     *)
(***************************************************************************)
C23_NoRedistribution ==
    (SharesComputed /\ ShareExceedsCount) =>
        LET g == cin.global
            l == cin.local
            gl == ret.shown.globalLimit
            ll == ret.shown.localLimit
        IN  /\ ret.shown.displayGlobal = someResults("global", Min(g, gl))
            /\ ret.shown.displayLocal = someResults("local", Min(l, ll))
            /\ ShownCount < Min(cin.limit, g + l)
                   <=> (g < gl /\ l > ll) \/ (l < ll /\ g > gl)
            /\ (g <= gl /\ l <= ll) => ShownCount = g + l

\* the global scope has fewer results than its share and the local scope
\* more than its own: one place of the limit stays empty
C23_Witness ==
    /\ SharesComputed
    /\ cin.global < ret.shown.globalLimit
    /\ cin.local > ret.shown.localLimit
    /\ ShownCount < Min(cin.limit, cin.global + cin.local)

(***************************************************************************)
(* C24: with limit L >= 0 and raw counts g and l, g + l > 0: when          *)
(* L <= g + l the global share is at most g and the local share at most l, *)
(* and exactly L results are shown; when L > g + l every result of both    *)
(* scopes is shown; and with g + l = 0 no split is computed.               *)
(***************************************************************************)
C24_ExactFill ==
    ret.op = "shares" =>
        LET L == cin.limit
            g == cin.global
            l == cin.local
        IN  /\ ret.found <=> g + l > 0
            /\ (ret.found /\ L <= g + l) =>
                   /\ ret.shown.globalLimit <= g
                   /\ ret.shown.localLimit <= l
                   /\ ShownCount = L
            /\ (ret.found /\ L > g + l) =>
                   /\ ret.shown.displayGlobal = someResults("global", g)
                   /\ ret.shown.displayLocal = someResults("local", l)

(***************************************************************************)
(* C25: a search of a directory in which a listed file fails to read or    *)
(* decode fails as a whole, whatever the filters: it returns the error of  *)
(* such a file and no result, also when other files match the filters; and *)
(* a search of a directory without such a file succeeds.                   *)
(***************************************************************************)
C25_SearchAllOrNothing ==
    ret.op = "list" =>
        IF HasUnreadable(fs)
        THEN \E f \in Documents(fs) :
                 /\ ~read(fs, f).ok
                 /\ ret.result = [ok |-> FALSE, error |-> read(fs, f).error]
        ELSE ret.result.ok

\* a search by topic failed on a directory in which a document of that
\* topic stands beside a file that is no document
C25_Witness ==
    /\ ret.op = "list"
    /\ ret.options.topic = Some(TopicQ)
    /\ ~ret.result.ok
    /\ \E f \in Documents(fs) :
          read(fs, f).ok /\ read(fs, f).metadata.topic = TopicQ

(***************************************************************************)
(* C26: after add returns, the file it wrote decodes to a document with a  *)
(* non-empty title, topic and created date, so that get of the returned    *)
(* name succeeds, and list({}) on the directory succeeds.                  *)
(***************************************************************************)
C26_AddedIsDecodable ==
    (ret.op = "add" /\ ret.ok) =>
        /\ read(fs, ret.filename).ok
        /\ read(fs, ret.filename).metadata.title # <<>>
        /\ read(fs, ret.filename).metadata.topic # <<>>
        /\ read(fs, ret.filename).metadata.created # <<>>
        /\ \A entries \in readdir(fs) : search(fs, entries, NoOptions).ok

\* the last step was a write or delete of the git-synchronized backend
\* that returned without error
GitSucceeded == ret.op \in {"add", "remove"} /\ ret.ok

(***************************************************************************)
(* C27: when the most recent write or delete of the git-synchronized       *)
(* backend returned without error the remote is at the local head; the     *)
(* remote is behind the head only when the most recent write or delete     *)
(* failed.                                                                 *)
(***************************************************************************)
C27_SuccessIsPublished ==
    ret.op \in {"add", "remove"} =>
        /\ ret.ok => git.remote = git.head
        /\ git.remote # git.head => ~ret.ok

\* the message of the operation of the last step
LastMessage ==
    IF ret.op = "add" THEN AddMessage(ret.filename) ELSE RemoveMessage(ret.filename)

C28_Clean == GitSucceeded => git.index = fs /\ git.head = fs

C28_SweepStep ==
    (ret'.op \in {"add", "remove"} /\ ret'.ok) =>
        \A f \in DOMAIN fs' :
            (f \notin DOMAIN git.head \/ git.head[f] # fs'[f]) =>
                git'.blame[f] = LastMessage'

(***************************************************************************)
(* C28: after a write or delete of the git-synchronized backend that       *)
(* returned without error, what is staged and what is committed are the    *)
(* base directory as it is; and every file of the base directory that was  *)
(* not committed as it is before the operation, left behind by earlier     *)
(* operations or written by this one, is committed under the message of    *)
(* this operation.                                                         *)
(***************************************************************************)
C28_NothingUncommitted == []C28_Clean /\ [][C28_SweepStep]_vars

\* the add of one file returned without error and the other file of the
\* directory is committed under its message
C28_Witness ==
    /\ GitSucceeded
    /\ ret.op = "add"
    /\ git.head = fs
    /\ \E f \in DOMAIN fs \ {ret.filename} : git.blame[f] = AddMessage(ret.filename)

(***************************************************************************)
(* Operations of one process that overlap, on the git-synchronized         *)
(* backend.  An operation is called while the event loop is free; its file *)
(* system call is carried out beside the event loop and lands at any time; *)
(* what follows the await runs when the event loop is free again.  The git *)
(* commands run through execSync, which holds the event loop until the     *)
(* command has ended, and commitAndPush awaits nothing between them.       *)
(* pc[i] is the i-th operation called: its call, its stage, and for a      *)
(* search the files still to read and the results so far.  git.log is the  *)
(* log of all operations, each entry with the number of its operation.     *)
(***************************************************************************)
\* the most operations called in a behaviour
MaxOps == 2

\* the base directory of the clone at the start, empty or with a document
\* of the topic q under each of the names a.md and b.md: everything is
\* committed and pushed
AsyncDirectories ==
    {<<>>,
     [f \in DateNames |->
         addedText(CHOOSE p \in GitParams :
                       normalizedFilename(p.filename) = f /\ p.topic = TopicQ)]}

CloneMessage == <<"clone", <<>>>>

\* the calls that overlap: add of a.md with the topic Q, add of b.md,
\* remove of a.md, and a search by the topic q
AsyncCalls ==
    {[op |-> "add", filename |-> normalizedFilename(p.filename), params |-> p] :
        p \in {q \in GitParams : q.filename = FileA <=> q.topic = TopicUpperQ}}
    \cup {[op |-> "remove", filename |-> FileAMd],
          [op |-> "search", options |-> [NoOptions EXCEPT !.topic = Some(TopicQ)]]}

InitAsync ==
    /\ fs \in AsyncDirectories
    /\ today = 1
    /\ ret = [op |-> "init"]
    /\ live = DOMAIN fs
    /\ removed = {}
    /\ cin = NoCodec
    /\ cout = NoCodec
    /\ lfs = <<>>
    /\ git = [NoGit EXCEPT !.head = fs, !.index = fs, !.remote = fs,
                           !.blame = [f \in DOMAIN fs |-> CloneMessage]]
    /\ pc = <<>>

\* the stages in which an operation holds the event loop: between the git
\* commands of its sequence
Running == {"status", "commit", "push"}

EventLoopAlwaysFree == TRUE

\* no operation is between two git commands
EventLoopFree == \A i \in 1..Len(pc) : pc[i].stage \notin Running

\* an operation is called: its first file system call is issued
Call(c) ==
    /\ EventLoopFree
    /\ Len(pc) < MaxOps
    /\ pc' = Append(pc, IF c.op = "search"
                        THEN [call |-> c, stage |-> "readdir"]
                        ELSE [call |-> c, stage |-> "fs"])
    /\ UNCHANGED <<fs, today, ret, live, removed, cin, cout, lfs, git>>

\* the writeFile or unlink of operation i lands; unlink of a missing entry
\* rejects, and the operation ends without a git command
Land(i) ==
    /\ pc[i].stage = "fs"
    /\ LET c == pc[i].call
           missing == c.op = "remove" /\ c.filename \notin DOMAIN fs
       IN  /\ fs' = IF c.op = "add"
                    THEN write(fs, c.filename, addMetadata(c.params, today),
                               addContent(c.params))
                    ELSE IF missing THEN fs ELSE delete(fs, c.filename)
           /\ pc' = [pc EXCEPT ![i] =
                        IF missing
                        THEN [call |-> c, stage |-> "failed", error |-> ErrNoEnt]
                        ELSE [call |-> c, stage |-> "landed"]]
           /\ git' = [git EXCEPT !.log =
                         Append(@, [cmd |-> IF c.op = "add" THEN "write" ELSE "unlink",
                                    ok |-> ~missing, id |-> i])]
    /\ UNCHANGED <<today, ret, live, removed, cin, cout, lfs>>

\* the next git command of operation i runs, and exits with 0 or not: git
\* add . after the await of the file system call, then git status
\* --porcelain, git commit, git push
RunGit(i, exit0) ==
    /\ \/ pc[i].stage = "landed" /\ EventLoopFree
       \/ pc[i].stage \in Running
    /\ LET c == pc[i].call
           cmd == IF pc[i].stage = "landed" THEN "add" ELSE pc[i].stage
           message == IF c.op = "add" THEN AddMessage(c.filename)
                      ELSE RemoveMessage(c.filename)
           ok == exit0 /\ (cmd = "commit" => git.index # git.head)
           clean == git.index = git.head /\ fs = git.index /\ ~git.dirty
           logged == [git EXCEPT !.log = Append(@, [cmd |-> cmd, ok |-> ok, id |-> i])]
       IN  /\ git' = IF ~ok THEN logged
                     ELSE IF cmd = "add" THEN [logged EXCEPT !.index = fs]
                     ELSE IF cmd = "commit" THEN commit(logged, git.index, message)
                     ELSE IF cmd = "push" THEN [logged EXCEPT !.remote = git.head]
                     ELSE logged
           /\ pc' = [pc EXCEPT ![i] =
                        IF ~ok THEN [call |-> c, stage |-> "failed", error |-> ErrGit]
                        ELSE IF cmd = "add" THEN [call |-> c, stage |-> "status"]
                        ELSE IF cmd = "status" /\ ~clean
                        THEN [call |-> c, stage |-> "commit"]
                        ELSE IF cmd = "commit" THEN [call |-> c, stage |-> "push"]
                        ELSE [call |-> c, stage |-> "done"]]
    /\ UNCHANGED <<fs, today, ret, live, removed, cin, cout, lfs>>

\* the readdir of search i answers, in some order
ListDir(i) ==
    /\ pc[i].stage = "readdir"
    /\ EventLoopFree
    /\ \E entries \in readdir(fs) :
          pc' = [pc EXCEPT ![i] = [call |-> pc[i].call, stage |-> "read",
                                   files |-> listFiles(entries), results |-> <<>>]]
    /\ UNCHANGED <<fs, today, ret, live, removed, cin, cout, lfs, git>>

\* the turn of the loop that passes over a file that is not there
readNextSkipping(dir, s) ==
    IF s.files = <<>> THEN [call |-> s.call, stage |-> "done", results |-> s.results]
    ELSE [s EXCEPT !.files = Tail(@)]

\* one turn of the loop of search: the next file is read and decoded as
\* the directory is now, and kept if it passes the filters; a read that
\* throws ends the search; after the last file the results are returned
readNext(dir, s) ==
    IF s.files = <<>> THEN [call |-> s.call, stage |-> "done", results |-> s.results]
    ELSE LET learning == read(dir, s.files[1])
         IN  IF ~learning.ok
             THEN [call |-> s.call, stage |-> "failed", error |-> learning.error]
             ELSE [s EXCEPT !.files = Tail(@),
                            !.results =
                                IF passes(learning, s.call.options)
                                THEN Append(@, [filename |-> learning.filename,
                                                title |-> learning.metadata.title,
                                                topic |-> learning.metadata.topic])
                                ELSE @]

ReadNext(i) ==
    /\ pc[i].stage = "read"
    /\ EventLoopFree
    /\ pc' = [pc EXCEPT ![i] = readNext(fs, pc[i])]
    /\ UNCHANGED <<fs, today, ret, live, removed, cin, cout, lfs, git>>

NextAsync ==
    \/ \E c \in AsyncCalls : Call(c)
    \/ \E i \in 1..Len(pc) : Land(i)
    \/ \E i \in 1..Len(pc), exit0 \in BOOLEAN : RunGit(i, exit0)
    \/ \E i \in 1..Len(pc) : ListDir(i)
    \/ \E i \in 1..Len(pc) : ReadNext(i)

SpecAsync == InitAsync /\ [][NextAsync]_vars

\* the git commands of the log, and those of operation i
GitCommands == {"add", "status", "commit", "push"}
GitLog == SelectSeq(git.log, LAMBDA e : e.cmd \in GitCommands)
CommandsOf(i) ==
    LET own == SelectSeq(GitLog, LAMBDA e : e.id = i)
    IN  [k \in 1..Len(own) |-> own[k].cmd]
MessageOf(i) ==
    IF pc[i].call.op = "add" THEN AddMessage(pc[i].call.filename)
    ELSE RemoveMessage(pc[i].call.filename)

\* the mutations i and j both landed before the sequence of i began, the
\* sequence of j followed, both returned without error, and the log begins
\* with these entries
BothLandedFirst(i, j) ==
    LET n == 2 + Len(CommandsOf(i)) + Len(CommandsOf(j))
    IN  /\ i # j
        /\ pc[i].call.op \in {"add", "remove"} /\ pc[i].stage = "done"
        /\ pc[j].call.op \in {"add", "remove"} /\ pc[j].stage = "done"
        /\ Len(git.log) >= n
        /\ \A k \in 1..n : git.log[k].id \in {i, j}
        /\ \A k \in 1..2 : git.log[k].cmd \notin GitCommands
        /\ git.log[3].id = i

(***************************************************************************)
(* C29: the git commands of overlapping operations do not interleave: at   *)
(* most one operation is between two commands of its sequence, and in the  *)
(* log the commands of an operation stand together.  When two mutations    *)
(* both land before the first sequence begins and both return without      *)
(* error, the second sequence is git add and git status alone and makes no *)
(* commit; and when nothing else has happened since, the directory is      *)
(* committed and pushed as it is, every file that changed under the        *)
(* message of the first.                                                   *)
(***************************************************************************)
C29_SequencesDoNotInterleave ==
    /\ Cardinality({i \in 1..Len(pc) : pc[i].stage \in Running}) <= 1
    /\ \A j \in 1..(Len(GitLog) - 1) :
          GitLog[j].id # GitLog[j + 1].id =>
              \A k \in (j + 1)..Len(GitLog) : GitLog[k].id # GitLog[j].id
    /\ \A i, j \in 1..Len(pc) :
          BothLandedFirst(i, j) =>
              /\ CommandsOf(j) = <<"add", "status">>
              /\ CommandsOf(i) \in {<<"add", "status">>,
                                    <<"add", "status", "commit", "push">>}
              /\ Len(git.log) = 2 + Len(CommandsOf(i)) + Len(CommandsOf(j)) =>
                     /\ git.index = fs
                     /\ git.head = fs
                     /\ git.remote = fs
                     /\ \A f \in DOMAIN fs :
                            git.blame[f] \in {CloneMessage, MessageOf(i)}

\* two adds of different names landed before either sequence began: the
\* first sequence committed both files, the second made no commit
C29_Witness ==
    \E i, j \in 1..Len(pc) :
        /\ BothLandedFirst(i, j)
        /\ pc[i].call.op = "add"
        /\ pc[j].call.op = "add"
        /\ pc[i].call.filename # pc[j].call.filename
        /\ CommandsOf(i) = <<"add", "status", "commit", "push">>
        /\ git.blame[pc[j].call.filename] = MessageOf(i)
        /\ git.remote = fs

\* the result search keeps of a document
Summary(learning) ==
    [filename |-> learning.filename, title |-> learning.metadata.title,
     topic |-> learning.metadata.topic]

C30_ReadStep ==
    \A i \in 1..Len(pc) :
        (pc[i].stage = "read" /\ pc'[i] # pc[i] /\ pc[i].files # <<>>) =>
            LET f == pc[i].files[1]
            IN  /\ f \notin DOMAIN fs =>
                       /\ pc'[i].stage = "failed"
                       /\ pc'[i].error = ErrNoEnt
                /\ pc'[i].stage = "read" =>
                       /\ f \in DOMAIN fs
                       /\ read(fs, f).ok
                       /\ pc'[i].results \in
                              {pc[i].results,
                               Append(pc[i].results, Summary(read(fs, f)))}

(***************************************************************************)
(* C30: search reads the files it listed one after another, each as the    *)
(* directory is at that moment: when the file whose turn it is has been    *)
(* removed since the listing, the search fails with ENOENT and does not    *)
(* pass over it; and every result it adds is that of a file that is in the *)
(* directory when it is read, with its title and topic of that moment.     *)
(***************************************************************************)
C30_SearchNotAtomic == [][C30_ReadStep]_vars

\* a search failed with ENOENT: a remove landed between its listing and
\* its read
C30_Witness ==
    \E i, j \in 1..Len(pc) :
        /\ pc[i].call.op = "search"
        /\ pc[i].stage = "failed"
        /\ pc[i].error = ErrNoEnt
        /\ pc[j].call.op = "remove"
        /\ pc[j].stage \notin {"fs", "failed"}

====
